---- MODULE Spec2Model ----
(***************************************************************************)
(* Model of the ESP32PublishSubscribe library:                             *)
(*   include/PublishSubscribe.hpp   the subscription registry with its     *)
(*                                  try-lock-else-queue reentrancy protocol*)
(*   DeferredCallsQueue.cpp         the (priority, core) keyed worker pool *)
(* Every task (user task or pool worker) owns a call stack of frames; one  *)
(* action is one step of the code of the frame on top of a task's stack.   *)
(***************************************************************************)
EXTENDS Integers, Sequences, FiniteSets, TLC

(* ---------------------------------------------------------------- bounds *)
\* number of calls of the public functions the client tasks make together
MaxCalls == 3
\* number of those calls the second client task may make
MaxCallsT2 == 1
MaxSubmits == 23
MaxSubmitsT1 == 2
MaxSubmitsT2 == 2
MaxRecursive == 2
MaxKeyed == 2
MaxReentrant == 2
MaxReentrantT2 == 1

(* ------------------------------------------------------ program constants *)
itsQueueSize == 20
tskNO_AFFINITY == 2147483647
ESP_TASK_MAIN_PRIO == 1
TwoPow16 == 65536
TwoPow15 == 32768
NameLength == 16
FirstChar == 33
CharRange == 64

itsCurrentAffinity == tskNO_AFFINITY - 1

None == "none"
NoFatal == "none"
NoName == <<>>

(* ------------------------------------------------------------ std::string *)
\* std::less<std::string>: lexicographic comparison of the character codes
LexLess(a, b) ==
    \E i \in 1..(Len(a) + 1) :
        /\ \A j \in 1..(i - 1) : j <= Len(b) /\ a[j] = b[j]
        /\ IF i = Len(a) + 1
             THEN Len(b) >= i
             ELSE i <= Len(b) /\ a[i] < b[i]

\* the explicit callback names used by the clients: "a", "b"
NameA == <<97>>
NameB == <<98>>

\* generateRandomString: p_length characters, chars[i] = ' ' + 1 + (rand() % 64);
\* rs is the sequence of the p_length results of rand()
generateRandomString(rs) == [i \in 1..NameLength |-> FirstChar + (rs[i] % CharRange)]
\* the rand() sequences the model draws from
RandDraws == { [i \in 1..NameLength |-> 0],
               [i \in 1..NameLength |-> IF i = NameLength THEN CharRange + 1 ELSE 0] }

(* ------------------------------------------------------------------ tasks *)
\* the client tasks; a pool worker is identified by the key of its queue
T1 == <<"user", 1>>
T2 == <<"user", 2>>
Users == {T1, T2}
Worker(key) == <<"worker", key>>
NoTask == <<"none", 0>>
\* uxTaskPriorityGet(NULL) and xTaskGetAffinity(NULL) of the client tasks:
\* T1 is the main task (ESP_TASK_MAIN_PRIO, core 0), T2 a task on core 1
UserPrio(t) == IF t = T1 THEN ESP_TASK_MAIN_PRIO ELSE 2
UserCore(t) == IF t = T1 THEN 0 ELSE 1

Channels == {"X", "R", "Y"}

\* A 32 bit word above 2^31 - 1 is written as its two 16 bit halves <<hi, lo>>
\* (the word hi * 2^16 + lo); U32(n) are the halves of a natural n < 2^31.
U32(n) == <<n \div TwoPow16, n % TwoPow16>>
MaxU32 == <<TwoPow16 - 1, TwoPow16 - 1>>
\* conversion of the UBaseType_t argument p_priority (halves u) to the int
\* parameter p_prio of publishAsyncUnguarded: modulo 2^32 into -2^31..2^31-1
ToInt32(u) == IF u[1] >= TwoPow15 THEN ((u[1] - TwoPow16) * TwoPow16) + u[2]
                                  ELSE (u[1] * TwoPow16) + u[2]

\* getQueueList: key = ((p_priority & 0xffff) << 16) | (p_core_id & 0xffff),
\* the uint32_t key written as its halves <<key >> 16, key & 0xffff>>
\* a key made of the priority alone
QueueKeyOfPriority(p_priority, p_core_id) == <<p_priority % TwoPow16, 0>>

\* const uint32_t key = ((p_priority & 0xffff) << 16) | (p_core_id & 0xffff),
\* as its upper and lower 16 bits
QueueKey(p_priority, p_core_id) == <<p_priority % TwoPow16, p_core_id % TwoPow16>>

(* ------------------------------------------------- operations and thunks *)
\* one call of a registry function with its parameters; id names the call
NoOp == [type |-> None, ch |-> None, name |-> NoName, cb |-> None, prio |-> 0,
         aff |-> 0, async |-> FALSE, arg |-> 0, ovr |-> <<0, 0>>, id |-> <<>>]

publish(ch, arg) == [NoOp EXCEPT !.type = "publish", !.ch = ch, !.arg = arg]
publishAsync(ch, arg) == [NoOp EXCEPT !.type = "publishAsync", !.ch = ch, !.arg = arg]
publishAsyncWithPrio(ch, arg, p_priority) ==
    [NoOp EXCEPT !.type = "publishAsyncWithPrio", !.ch = ch, !.arg = arg, !.ovr = p_priority]
subscribe(ch, name, cb, p_priority, p_affinity, p_alwaysAsync) ==
    [NoOp EXCEPT !.type = "subscribe", !.ch = ch, !.name = name, !.cb = cb,
                 !.prio = p_priority, !.aff = p_affinity, !.async = p_alwaysAsync]
unsubscribe(ch, name) == [NoOp EXCEPT !.type = "unsubscribe", !.ch = ch, !.name = name]
clear(ch) == [NoOp EXCEPT !.type = "clearChannel", !.ch = ch]
clearAll == [NoOp EXCEPT !.type = "clearAll"]

\* the read side of itsPubSubMutex is taken by the publish functions
IsShared(op) == op.type \in {"publish", "publishAsync", "publishAsyncWithPrio"}

\* the lambda each entry point puts on itsRecursiveCallsQueue: publish,
\* subscribe and clear call the guarded function again, publishAsync,
\* publishAsyncWithPrio and unsubscribe call the Unguarded function
ThunkGuarded(op) == op.type \in {"publish", "subscribe", "clearChannel", "clearAll"}

\* int p_prio of publishAsyncUnguarded: default -1, else the converted override
PPrio(op) == IF op.type = "publishAsyncWithPrio" THEN ToInt32(op.ovr) ELSE -1

(* -------------------------------------------------------- client callbacks *)
\* the bodies of the subscriber lambdas of the unit tests
CallbackBody(cb) ==
    CASE cb = "print" -> << [s |-> "print"] >>
      [] cb = "pubY"  -> << [s |-> "publish", ch |-> "Y", arg |-> 44], [s |-> "print"] >>
      [] cb = "subY"  -> << [s |-> "subscribeSync", ch |-> "Y", cb |-> "print"],
                            [s |-> "publish", ch |-> "Y", arg |-> 44],
                            [s |-> "print"] >>
      [] cb = "unsubX" -> << [s |-> "unsubscribe", ch |-> "X", self |-> TRUE],
                             [s |-> "unsubscribe", ch |-> "X", self |-> FALSE],
                             [s |-> "print"] >>
      [] cb = "subX"   -> << [s |-> "subscribeSync", ch |-> "X", cb |-> "print"],
                             [s |-> "print"] >>
      [] cb = "clearX" -> << [s |-> "clear", ch |-> "X"], [s |-> "print"] >>
      [] cb = "resubmit" -> << [s |-> "print"],
                               [s |-> "addDeferredCall", cb |-> "print", arg |-> 2, prio |-> 0] >>

(* ------------------------------------------------------------------ frames *)
NoSub == [cb |-> None, prio |-> 0, aff |-> 0, async |-> FALSE]
Frame0 == [kind |-> "op", pc |-> "try", op |-> NoOp, g |-> TRUE, cur |-> NoName,
           vis |-> <<>>, copy |-> <<>>, ip |-> 1, inl |-> FALSE, name |-> NoName,
           sub |-> NoSub, prio |-> 0, core |-> 0, key |-> <<0, 0>>, nested |-> {},
           ids |-> <<>>]

\* a call of a registry function: guarded (from try_lock on) or Unguarded
OpFrame(op, guarded) ==
    [Frame0 EXCEPT !.kind = "op", !.op = op, !.g = guarded,
                   !.pc = IF guarded THEN "try" ELSE "body"]
\* an activation callback(p_args...) of the callback of subscription name, entry
\* sub, for the publish call op; inline: called by publishUnguarded itself
CbFrame(op, name, sub, inline) ==
    [Frame0 EXCEPT !.kind = "cb", !.pc = "run", !.op = op, !.name = name,
                   !.sub = sub, !.inl = inline]
\* addDeferredCall([callback, p_args...], p_priority, coreId), coreId resolved
AdcFrame(op, name, sub, p_priority, coreId) ==
    [Frame0 EXCEPT !.kind = "adc", !.pc = "gql_lock", !.op = op, !.name = name,
                   !.sub = sub, !.prio = p_priority, !.core = coreId]

(* ------------------------------------------------------------------- state *)
VARIABLES
    itsSubscriptions,        \* SubscriptionMap: channel -> (name -> MapEntryType)
    itsPubSubMutex,          \* std::shared_mutex: its writer and its readers
    itsDefCallsMutex,        \* std::mutex guarding itsRecursiveCallsQueue: holder
    itsRecursiveCallsQueue,  \* std::queue of the deferred registry calls
    itsQueueListMutex,       \* std::mutex guarding itsQueueList: holder
    itsQueueList,            \* key -> contents of the FreeRTOS queue of the key
    tasks,                   \* key -> priority and core of the created callerTask
    stack,                   \* task -> call stack, innermost frame last
    budget,                  \* client task -> calls of public functions made
    fatal,                   \* the abort (ESP_ERROR_CHECK) that ended the process
    gh                       \* history: what was called, run, dropped, erased,
                             \* and the order the subscriptions were inserted in

vars == <<itsSubscriptions, itsPubSubMutex, itsDefCallsMutex, itsRecursiveCallsQueue,
          itsQueueListMutex, itsQueueList, tasks, stack, budget, fatal, gh>>

registryVars == <<itsSubscriptions, itsPubSubMutex>>
poolVars == <<itsQueueListMutex, itsQueueList, tasks>>

EmptyMap == [n \in {} |-> NoOp]
EmptyBag == [r \in {} |-> 0]
BagAdd(b, r) == IF r \in DOMAIN b THEN [b EXCEPT ![r] = @ + 1] ELSE b @@ (r :> 1)

MapEntryType(op) == [cb |-> op.cb, prio |-> op.prio, aff |-> op.aff, async |-> op.async]

\* the state after construction of the two singletons
Init ==
    /\ itsSubscriptions = [c \in {} |-> EmptyMap]
    /\ itsPubSubMutex = [writer |-> NoTask, readers |-> EmptyBag]
    /\ itsDefCallsMutex = NoTask
    /\ itsRecursiveCallsQueue = <<>>
    /\ itsQueueListMutex = NoTask
    /\ itsQueueList = [k \in {} |-> <<>>]
    /\ tasks = [k \in {} |-> [prio |-> 0, core |-> 0]]
    /\ stack = [t \in Users |-> <<>>]
    /\ budget = [t \in Users |-> 0]
    /\ fatal = NoFatal
    /\ gh = [ncall |-> [t \in Users |-> 0], executed |-> EmptyBag, dropped |-> {},
             nested |-> {}, erased |-> {}, ub |-> {}, order |-> <<>>, pubs |-> {},
             queues |-> EmptyBag, workers |-> EmptyBag, waited |-> {}, subm |-> {},
             upperLimit |-> [t \in Users |-> 0], unnamed |-> {}, modulus |-> 1]

(* ----------------------------------------------------------------- helpers *)
Top(t) == stack[t][Len(stack[t])]
SetTop(s, f) == [s EXCEPT ![Len(s)] = f]
Pop(s) == SubSeq(s, 1, Len(s) - 1)
At(t, kind, pc) == /\ fatal = NoFatal
                   /\ t \in DOMAIN stack
                   /\ stack[t] # <<>>
                   /\ Top(t).kind = kind
                   /\ Top(t).pc = pc

\* uxTaskPriorityGet(NULL) / xTaskGetAffinity(NULL) of the running task
TaskPrio(t) == IF t \in Users THEN UserPrio(t) ELSE tasks[t[2]].prio
TaskCore(t) == IF t \in Users THEN UserCore(t) ELSE tasks[t[2]].core

\* the id given to the next call task t makes
NextId(t) == <<t, gh.ncall[t] + 1>>
Counted(t) == [gh EXCEPT !.ncall[t] = @ + 1]

(* ------------------------------------------------------ public subscribers *)
\* subscribeSync(channel, name, callback)
subscribeSync(t, ch, name, cb) == subscribe(ch, name, cb, TaskPrio(t), TaskCore(t), FALSE)
\* subscribeAsync(channel, name, callback)
subscribeAsync(t, ch, name, cb) == subscribe(ch, name, cb, TaskPrio(t), TaskCore(t), TRUE)
\* subscribeSync(channel, callback): the name is generateRandomString()
subscribeSyncAuto(t, ch, cb, rs) ==
    subscribe(ch, generateRandomString(rs), cb, TaskPrio(t), TaskCore(t), FALSE)
\* subscribeAsyncWithPrio(channel, callback, priority): generated name
subscribeAsyncWithPrio(t, ch, cb, p_priority, rs) ==
    subscribe(ch, generateRandomString(rs), cb, p_priority, TaskCore(t), TRUE)

\* the calls the client tasks choose from: channel "X" has the plain
\* subscribers, channel "R" the reentrant ones, which call back for channel "Y"
Menu(t) ==
    IF t = T1
      THEN {subscribeSync(t, "X", NameB, "print"), subscribeAsync(t, "X", NameA, "print")}
           \cup {subscribeSync(t, "R", NameA, cb) : cb \in {"pubY", "subY"}}
           \cup {publish("X", 43), publish("R", 43), publishAsync("X", 42)}
           \cup {publishAsyncWithPrio("X", 42, MaxU32)}
           \cup {unsubscribe("X", NameA), clear("X"), clearAll}
      ELSE {publish("X", 45), subscribeSync(t, "Y", NameB, "print")}

(* --------------------------------------------- the guard of an entry point *)
\* a try_lock_shared() that is not recursive: fails while anyone holds the mutex
try_lock_sharedUnheld(t) ==
    itsPubSubMutex.writer = NoTask /\ DOMAIN itsPubSubMutex.readers = {}

\* itsPubSubMutex.try_lock_shared(): fails only while a writer holds the mutex
try_lock_shared(t) == itsPubSubMutex.writer = NoTask
\* a try_lock() that upgrades over read locks: fails only while a writer holds it
try_lockOverReaders(t) == itsPubSubMutex.writer = NoTask

\* itsPubSubMutex.try_lock(): fails while a writer or any reader holds it
try_lock(t) == itsPubSubMutex.writer = NoTask /\ DOMAIN itsPubSubMutex.readers = {}

\* if (itsPubSubMutex.try_lock[_shared]()): the condition of an entry point
Acquires(t, op) == IF IsShared(op) THEN try_lock_shared(t) ELSE try_lock(t)

\* the frame of a call of op by task t: a guarded entry point is in its
\* Unguarded function if it got the lock and before its lock_guard if not; the
\* Unguarded function called by a thunk takes no lock
Enter(t, op, guarded) ==
    [OpFrame(op, guarded) EXCEPT !.pc = IF guarded /\ ~Acquires(t, op) THEN "enq_lock" ELSE "body"]
\* itsPubSubMutex after that call
Locked(t, op, guarded) ==
    IF guarded /\ Acquires(t, op)
      THEN IF IsShared(op) THEN [itsPubSubMutex EXCEPT !.readers = BagAdd(@, t)]
                           ELSE [itsPubSubMutex EXCEPT !.writer = t]
      ELSE itsPubSubMutex

BagRemove(b, r) == IF b[r] = 1 THEN [x \in (DOMAIN b) \ {r} |-> b[x]]
                               ELSE [b EXCEPT ![r] = @ - 1]

\* the stack of t after the Unguarded function of frame f has returned: a
\* guarded entry point unlocks and goes on to runQueuedCalls, an Unguarded
\* thunk returns to the drain loop
AfterBody(s, f) == IF f.g THEN SetTop(s, [f EXCEPT !.pc = "rqc_lock"]) ELSE Pop(s)
\* itsPubSubMutex.unlock_shared() / unlock() of a guarded entry point
Unlocked(t, f) ==
    IF f.g
      THEN IF IsShared(f.op) THEN [itsPubSubMutex EXCEPT !.readers = BagRemove(@, t)]
                             ELSE [itsPubSubMutex EXCEPT !.writer = NoTask]
      ELSE itsPubSubMutex

\* the names subscribed to channel ch
Subscribers(ch) ==
    IF ch \in DOMAIN itsSubscriptions THEN DOMAIN itsSubscriptions[ch] ELSE {}

(* ------------------------------------------------------- client task steps *)
\* a client task calls a public function of the registry
Call(t) ==
    /\ fatal = NoFatal
    /\ t \in Users
    /\ stack[t] = <<>>
    /\ budget[T1] + budget[T2] < MaxCalls
    /\ t = T2 => budget[t] < MaxCallsT2
    /\ \E op \in Menu(t) :
         LET call == [op EXCEPT !.id = NextId(t)] IN
           /\ stack' = [stack EXCEPT ![t] = <<Enter(t, call, TRUE)>>]
           /\ itsPubSubMutex' = Locked(t, call, TRUE)
           /\ gh' = [Counted(t) EXCEPT !.pubs = @ \cup
                        IF op.type \in {"publishAsync", "publishAsyncWithPrio"}
                          THEN {[id |-> call.id, ch |-> op.ch, names |-> Subscribers(op.ch)]}
                          ELSE {}]
    /\ budget' = [budget EXCEPT ![t] = @ + 1]
    /\ UNCHANGED <<itsSubscriptions, poolVars, itsDefCallsMutex, itsRecursiveCallsQueue, fatal>>

(* ------------------------------------------- the Unguarded registry bodies *)
\* itsSubscriptions[p_channel]: operator[] inserts an empty CallbackMap
WithChannel(subs, ch) == IF ch \in DOMAIN subs THEN subs ELSE subs @@ (ch :> EmptyMap)

\* a subscribeUnguarded without its check of the name
NameTakenUnchecked(subs, op) == FALSE

\* itsSubscriptions[p_channel].count(p_callbackName) > 0
NameTaken(subs, op) == op.name \in DOMAIN subs[op.ch]

\* the else branch of subscribeUnguarded: try_emplace of the new entry, which
\* leaves an entry of that name as it is
subscribeInsert(subs, op) ==
    [subs EXCEPT ![op.ch] = @ @@ (op.name :> MapEntryType(op))]

subscribeUnguarded(t) ==
    /\ At(t, "op", "body")
    /\ Top(t).op.type = "subscribe"
    /\ LET f == Top(t)
           subs == WithChannel(itsSubscriptions, f.op.ch)
       IN IF NameTaken(subs, f.op)
            THEN \* callback name already taken: ESP_ERROR_CHECK(ESP_FAIL)
                 /\ itsSubscriptions' = subs
                 /\ fatal' = "duplicate_name"
                 /\ UNCHANGED <<stack, itsPubSubMutex, gh>>
            ELSE /\ itsSubscriptions' = subscribeInsert(subs, f.op)
                 /\ stack' = [stack EXCEPT ![t] = AfterBody(@, f)]
                 /\ itsPubSubMutex' = Unlocked(t, f)
                 /\ gh' = [gh EXCEPT !.order = Append(@, <<f.op.ch, f.op.name>>)]
                 /\ UNCHANGED fatal
    /\ UNCHANGED <<poolVars, itsDefCallsMutex, itsRecursiveCallsQueue, budget>>

\* an erase that empties the CallbackMap
WithoutAll(m, names) == EmptyMap

\* CallbackMap::erase(key): the map without the entries of these names
Without(m, names) == [n \in (DOMAIN m) \ names |-> m[n]]

unsubscribeUnguarded(t) ==
    /\ At(t, "op", "body")
    /\ Top(t).op.type = "unsubscribe"
    /\ LET f == Top(t)
           subs == WithChannel(itsSubscriptions, f.op.ch)
       IN /\ itsSubscriptions' = [subs EXCEPT ![f.op.ch] = Without(@, {f.op.name})]
          /\ gh' = [gh EXCEPT !.erased = @ \cup ({<<f.op.ch, f.op.name>>}
                                    \cap {<<f.op.ch, n>> : n \in DOMAIN subs[f.op.ch]})]
          /\ stack' = [stack EXCEPT ![t] = AfterBody(@, f)]
          /\ itsPubSubMutex' = Unlocked(t, f)
    /\ UNCHANGED <<poolVars, itsDefCallsMutex, itsRecursiveCallsQueue, budget, fatal>>

\* clearUnguarded(p_channel)
clearUnguardedChannel(t) ==
    /\ At(t, "op", "body")
    /\ Top(t).op.type = "clearChannel"
    /\ LET f == Top(t)
           subs == WithChannel(itsSubscriptions, f.op.ch)
       IN /\ itsSubscriptions' = [subs EXCEPT ![f.op.ch] = EmptyMap]
          /\ gh' = [gh EXCEPT !.erased = @ \cup {<<f.op.ch, n>> : n \in DOMAIN subs[f.op.ch]}]
          /\ stack' = [stack EXCEPT ![t] = AfterBody(@, f)]
          /\ itsPubSubMutex' = Unlocked(t, f)
    /\ UNCHANGED <<poolVars, itsDefCallsMutex, itsRecursiveCallsQueue, budget, fatal>>

\* clearUnguarded()
clearUnguarded(t) ==
    /\ At(t, "op", "body")
    /\ Top(t).op.type = "clearAll"
    /\ LET f == Top(t)
       IN /\ itsSubscriptions' = [c \in {} |-> EmptyMap]
          /\ gh' = [gh EXCEPT !.erased = @ \cup
                        UNION {{<<c, n>> : n \in DOMAIN itsSubscriptions[c]} :
                               c \in DOMAIN itsSubscriptions}]
          /\ stack' = [stack EXCEPT ![t] = AfterBody(@, f)]
          /\ itsPubSubMutex' = Unlocked(t, f)
    /\ UNCHANGED <<poolVars, itsDefCallsMutex, itsRecursiveCallsQueue, budget, fatal>>

(* --------------------------------------------------------- the publishers *)
\* a CallbackMap ordered by std::greater: the range-for visits the keys in
\* descending order
NextNameDescending(m, cur) ==
    LET later == {n \in DOMAIN m : cur = NoName \/ LexLess(n, cur)}
    IN IF later = {} THEN NoName
       ELSE CHOOSE n \in later : \A k \in later \ {n} : LexLess(k, n)

\* the key the range-for over a CallbackMap m visits after key cur (none
\* left: NoName): std::map iterates in ascending order of its keys
NextName(m, cur) ==
    LET later == {n \in DOMAIN m : cur = NoName \/ LexLess(cur, n)}
    IN IF later = {} THEN NoName
       ELSE CHOOSE n \in later : \A k \in later \ {n} : LexLess(n, k)

\* the node the iterator stands on was erased by an Unguarded thunk
Dangling(f) ==
    /\ f.cur # NoName
    /\ \/ f.op.ch \notin DOMAIN itsSubscriptions
       \/ f.cur \notin DOMAIN itsSubscriptions[f.op.ch]

\* an addDeferredCall that passes p_core_id on as it is
ResolveCoreAsGiven(t, p_core_id) == p_core_id

\* UBaseType_t coreId = (p_core_id == itsCurrentAffinity) ? xTaskGetAffinity(NULL) : p_core_id
ResolveCore(t, p_core_id) == IF p_core_id = itsCurrentAffinity THEN TaskCore(t) ELSE p_core_id

\* a publishUnguarded that submits under the priority of the publishing task
PublishPrioOfCaller(t, e) == TaskPrio(t)

\* the priority publishUnguarded submits an alwaysAsync subscriber under
PublishPrio(t, e) == e.prio
\* the affinity publishUnguarded submits an alwaysAsync subscriber under
PublishAffinity(t, e) == e.aff
\* whether publishUnguarded hands the subscriber to the DeferredCallsQueue
PublishDefers(e) == e.async

\* the frame pushed for the subscriber n publishUnguarded visits
PublishVisit(t, f, n, e) ==
    IF PublishDefers(e)
      THEN AdcFrame(f.op, n, e, PublishPrio(t, e), ResolveCore(t, PublishAffinity(t, e)))
      ELSE CbFrame(f.op, n, e, TRUE)

\* (p_prio < 0) ? kv.second.itsPriority : p_prio
PublishAsyncPrio(op, e) == IF PPrio(op) < 0 THEN e.prio ELSE PPrio(op)
\* kv.second.itsAffinity
PublishAsyncAffinity(t, e) == e.aff

\* the frame pushed for the subscriber n publishAsyncUnguarded visits
PublishAsyncVisit(t, f, n, e) ==
    AdcFrame(f.op, n, e, PublishAsyncPrio(f.op, e), ResolveCore(t, PublishAsyncAffinity(t, e)))

\* one round of the range-for of publishUnguarded or publishAsyncUnguarded:
\* the next subscriber is visited, or the loop ends and the function returns
Visit(t, f, frame(_, _)) ==
    LET m == IF f.op.ch \in DOMAIN itsSubscriptions
               THEN itsSubscriptions[f.op.ch] ELSE EmptyMap
        n == NextName(m, f.cur)
    IN \E outcome \in (IF Dangling(f) THEN {"crash", "go on"} ELSE {"defined"}) :
         IF outcome = "crash"
           THEN /\ fatal' = "dangling_iterator"
                /\ gh' = [gh EXCEPT !.ub = @ \cup {"iterator"}]
                /\ UNCHANGED <<stack, itsPubSubMutex>>
           ELSE /\ UNCHANGED fatal
                /\ gh' = IF Dangling(f) THEN [gh EXCEPT !.ub = @ \cup {"iterator"}] ELSE gh
                /\ IF n = NoName
                     THEN /\ stack' = [stack EXCEPT ![t] = AfterBody(@, f)]
                          /\ itsPubSubMutex' = Unlocked(t, f)
                     ELSE /\ stack' = [stack EXCEPT ![t] = Append(
                                 SetTop(@, [f EXCEPT !.cur = n, !.vis = Append(@, n)]),
                                 frame(n, m[n]))]
                          /\ UNCHANGED itsPubSubMutex

\* a publish that reads itsSubscriptions[p_channel] without asking contains
PublishLookupInserting(subs, ch) == WithChannel(subs, ch)

\* if (itsSubscriptions.contains(p_channel)) ... itsSubscriptions[p_channel]:
\* operator[] is only reached for a channel that is there, the map stays as
\* it is
PublishLookup(subs, ch) == subs

publishUnguarded(t) ==
    /\ At(t, "op", "body")
    /\ Top(t).op.type = "publish"
    /\ Visit(t, Top(t), LAMBDA n, e : PublishVisit(t, Top(t), n, e))
    /\ itsSubscriptions' = PublishLookup(itsSubscriptions, Top(t).op.ch)
    /\ UNCHANGED <<poolVars, itsDefCallsMutex, itsRecursiveCallsQueue, budget>>

publishAsyncUnguarded(t) ==
    /\ At(t, "op", "body")
    /\ Top(t).op.type \in {"publishAsync", "publishAsyncWithPrio"}
    /\ Visit(t, Top(t), LAMBDA n, e : PublishAsyncVisit(t, Top(t), n, e))
    /\ itsSubscriptions' = PublishLookup(itsSubscriptions, Top(t).op.ch)
    /\ UNCHANGED <<poolVars, itsDefCallsMutex, itsRecursiveCallsQueue, budget>>

(* ------------------------------------------------------ DeferredCallsQueue *)
\* std::mutex::lock() returns once no thread holds the mutex
LockTakenAnyway(m) == TRUE
LockAvailable(m) == m = NoTask

\* getQueueList: itsQueueListMutex.lock()
getQueueListLock(t) ==
    /\ At(t, "adc", "gql_lock")
    /\ LockAvailable(itsQueueListMutex)
    /\ itsQueueListMutex' = t
    /\ stack' = [stack EXCEPT ![t] = SetTop(@, [Top(t) EXCEPT !.pc = "gql_find"])]
    /\ UNCHANGED <<registryVars, itsQueueList, tasks, itsDefCallsMutex,
                   itsRecursiveCallsQueue, budget, fatal, gh>>

\* a getQueueList that returns without itsQueueListMutex.unlock()
QueueListLockKept(t) == t

\* itsQueueListMutex.unlock(): the holder of the mutex after the lookup
QueueListLockHolder(t) == NoTask

\* getQueueList: it = itsQueueList.find(key); a key that is found gives its
\* queue and the mutex is unlocked, a missing one goes on to create the queue
getQueueListFind(t) ==
    /\ At(t, "adc", "gql_find")
    /\ LET f == Top(t)
           key == QueueKey(f.prio, f.core)
       IN IF key \in DOMAIN itsQueueList
            THEN /\ itsQueueListMutex' = QueueListLockHolder(t)
                 /\ stack' = [stack EXCEPT ![t] = SetTop(@, [f EXCEPT !.key = key, !.pc = "send"])]
            ELSE /\ UNCHANGED itsQueueListMutex
                 /\ stack' = [stack EXCEPT ![t] = SetTop(@, [f EXCEPT !.key = key, !.pc = "gql_create"])]
    /\ UNCHANGED <<registryVars, itsQueueList, tasks, itsDefCallsMutex, itsRecursiveCallsQueue,
                   budget, fatal, gh>>

\* getQueueList, key not found: queue = xQueueCreate(itsQueueSize, ...);
\* itsQueueList[key] = queue; newEntry = true; then itsQueueListMutex.unlock()
getQueueListCreate(t) ==
    /\ At(t, "adc", "gql_create")
    /\ LET f == Top(t) IN
         /\ itsQueueList' = [k \in DOMAIN itsQueueList \cup {f.key} |->
                               IF k = f.key THEN <<>> ELSE itsQueueList[k]]
         /\ gh' = [gh EXCEPT !.queues = BagAdd(@, f.key)]
         /\ stack' = [stack EXCEPT ![t] = SetTop(@, [f EXCEPT !.pc = "gql_task"])]
    /\ itsQueueListMutex' = QueueListLockHolder(t)
    /\ UNCHANGED <<registryVars, tasks, itsDefCallsMutex, itsRecursiveCallsQueue,
                   budget, fatal>>

\* getQueueList, newEntry: xTaskCreatePinnedToCore(callerTaskWrapper, ..., queue,
\* p_priority, NULL, p_core_id)
getQueueListCreateTask(t) ==
    /\ At(t, "adc", "gql_task")
    /\ LET f == Top(t) IN
         /\ tasks' = [k \in DOMAIN tasks \cup {f.key} |->
                        IF k = f.key THEN [prio |-> f.prio, core |-> f.core] ELSE tasks[k]]
         /\ stack' = [stack EXCEPT ![t] = SetTop(@, [f EXCEPT !.pc = "send"])]
                        @@ (Worker(f.key) :> <<>>)
         /\ gh' = [gh EXCEPT !.ncall = @ @@ (Worker(f.key) :> 0),
                             !.workers = BagAdd(@, f.key)]
    /\ UNCHANGED <<registryVars, itsQueueListMutex, itsQueueList, itsDefCallsMutex,
                   itsRecursiveCallsQueue, budget, fatal>>

\* the entry xQueueSend copies into the queue: the callable with its bound
\* arguments (with the call and subscription it was made for)
QueueEntry(f) == [op |-> f.op, name |-> f.name, sub |-> f.sub, prio |-> f.prio, core |-> f.core]

\* a queue made by xQueueCreate(itsQueueSize, ...) has no free slot
QueueNeverFull(q) == FALSE
QueueFullEarly(q) == Len(q) >= itsQueueSize - 1
QueueFull(q) == Len(q) >= itsQueueSize

\* xQueueSend (xQueueSendToBack) with a free slot: the entry goes to the back
xQueueSendToFront(q, e) == <<e>> \o q
xQueueSend(q, e) == Append(q, e)

\* xQueueReceive: the entry at the front is taken out of the queue
xQueueReceiveNewest(q) == [item |-> q[Len(q)], rest |-> SubSeq(q, 1, Len(q) - 1)]
xQueueReceive(q) == [item |-> Head(q), rest |-> Tail(q)]

\* addDeferredCall: xQueueSend(queue, &queueEntry, 5000 ms). With a free slot
\* the entry is queued; on a full queue the caller blocks, and a queue that
\* stays full for the timeout ends in OS_ERROR_CHECK's ESP_ERROR_CHECK(ESP_FAIL)
addDeferredCallSend(t) ==
    /\ At(t, "adc", "send") \/ At(t, "adc", "send_wait")
    /\ LET f == Top(t) IN
         IF ~QueueFull(itsQueueList[f.key])
           THEN /\ itsQueueList' = [itsQueueList EXCEPT ![f.key] = xQueueSend(@, QueueEntry(f))]
                /\ stack' = [stack EXCEPT ![t] = Pop(@)]
                /\ UNCHANGED <<fatal, gh>>
           ELSE IF f.pc = "send"
             THEN /\ stack' = [stack EXCEPT ![t] = SetTop(@, [f EXCEPT !.pc = "send_wait"])]
                  /\ gh' = [gh EXCEPT !.waited = @ \cup {f.op.id}]
                  /\ UNCHANGED <<itsQueueList, fatal>>
             ELSE /\ fatal' = "queue_full_timeout"
                  /\ UNCHANGED <<itsQueueList, stack, gh>>
    /\ UNCHANGED <<registryVars, itsQueueListMutex, tasks, itsDefCallsMutex,
                   itsRecursiveCallsQueue, budget>>

\* callerTask: xQueueReceive(p_queue, &functionToCall, portMAX_DELAY), then
\* (*functionToCall)()
callerTask(key) ==
    /\ fatal = NoFatal
    /\ key \in DOMAIN tasks
    /\ stack[Worker(key)] = <<>>
    /\ itsQueueList[key] # <<>>
    /\ LET e == xQueueReceive(itsQueueList[key]).item IN
         stack' = [stack EXCEPT ![Worker(key)] = <<CbFrame(e.op, e.name, e.sub, FALSE)>>]
    /\ itsQueueList' = [itsQueueList EXCEPT ![key] = xQueueReceive(@).rest]
    /\ UNCHANGED <<registryVars, itsQueueListMutex, tasks, itsDefCallsMutex,
                   itsRecursiveCallsQueue, budget, fatal, gh>>

(* ------------------------------------------------- the subscriber callbacks *)
Statement(f) == CallbackBody(f.sub.cb)[f.ip]
\* the frame of the callback after its statement at ip: returns after the last
AfterStatement(s, f) ==
    IF f.ip = Len(CallbackBody(f.sub.cb)) THEN Pop(s) ELSE SetTop(s, [f EXCEPT !.ip = @ + 1])

\* the callback writes its argument to coutCapture
Output(t, f) == [id |-> f.op.id, name |-> f.name, arg |-> f.op.arg, inl |-> f.inl]

callbackPrint(t) ==
    /\ At(t, "cb", "run")
    /\ Statement(Top(t)).s = "print"
    /\ gh' = [gh EXCEPT !.executed = BagAdd(@, Output(t, Top(t)))]
    /\ stack' = [stack EXCEPT ![t] = AfterStatement(@, Top(t))]
    /\ UNCHANGED <<registryVars, poolVars, itsDefCallsMutex, itsRecursiveCallsQueue,
                   budget, fatal>>

\* the callback calls publish(channel, arg)
callbackPublish(t) ==
    /\ At(t, "cb", "run")
    /\ Statement(Top(t)).s = "publish"
    /\ LET f == Top(t)
           st == Statement(f)
           call == [publish(st.ch, st.arg) EXCEPT !.id = NextId(t)]
       IN /\ stack' = [stack EXCEPT ![t] = Append(
                         SetTop(@, [f EXCEPT !.ip = @ + 1, !.ids = Append(@, call.id)]),
                         Enter(t, call, TRUE))]
          /\ itsPubSubMutex' = Locked(t, call, TRUE)
    /\ gh' = Counted(t)
    /\ UNCHANGED <<itsSubscriptions, poolVars, itsDefCallsMutex, itsRecursiveCallsQueue,
                   budget, fatal>>

Registered(ch, name) ==
    ch \in DOMAIN itsSubscriptions /\ name \in DOMAIN itsSubscriptions[ch]

\* the callback calls subscribeSync(channel, callback)
callbackSubscribe(t) ==
    /\ At(t, "cb", "run")
    /\ Statement(Top(t)).s = "subscribeSync"
    /\ LET f == Top(t)
           st == Statement(f)
       IN \E rs \in RandDraws :
            LET call == [subscribeSyncAuto(t, st.ch, st.cb, rs) EXCEPT !.id = NextId(t)]
                new == IF Registered(call.ch, call.name) THEN {} ELSE {<<call.ch, call.name>>}
            IN /\ stack' = [stack EXCEPT ![t] =
                     Append(SetTop(@, [f EXCEPT !.ip = @ + 1, !.nested = @ \cup new,
                                               !.ids = Append(@, call.id)]),
                            Enter(t, call, TRUE))]
               /\ itsPubSubMutex' = Locked(t, call, TRUE)
               /\ gh' = [Counted(t) EXCEPT !.nested = @ \cup
                            IF f.inl /\ new # {}
                              THEN {[task |-> t, ch |-> call.ch, name |-> call.name]}
                              ELSE {}]
    /\ UNCHANGED <<itsSubscriptions, poolVars, itsDefCallsMutex, itsRecursiveCallsQueue,
                   budget, fatal>>

(* ----------------------------------------------------- drain and deferral *)
\* runQueuedCalls: itsDefCallsMutex.lock()
runQueuedCallsLock(t) ==
    /\ At(t, "op", "rqc_lock")
    /\ itsDefCallsMutex = NoTask
    /\ itsDefCallsMutex' = t
    /\ stack' = [stack EXCEPT ![t] = SetTop(@, [Top(t) EXCEPT !.pc = "rqc_swap"])]
    /\ UNCHANGED <<registryVars, poolVars, itsRecursiveCallsQueue, budget, fatal, gh>>

\* a runQueuedCalls that keeps itsDefCallsMutex while it runs the local copy
DrainLockKept(t) == t

\* the holder of itsDefCallsMutex while runQueuedCalls runs the local copy
DrainLockHolder(t) == NoTask

\* runQueuedCalls: if the queue is not empty swap it into the local copy;
\* unlock in both branches
runQueuedCallsSwap(t) ==
    /\ At(t, "op", "rqc_swap")
    /\ IF itsRecursiveCallsQueue # <<>>
         THEN /\ stack' = [stack EXCEPT ![t] = SetTop(@, [Top(t) EXCEPT
                                !.copy = itsRecursiveCallsQueue, !.pc = "rqc_loop"])]
              /\ itsRecursiveCallsQueue' = <<>>
              /\ itsDefCallsMutex' = DrainLockHolder(t)
         ELSE /\ stack' = [stack EXCEPT ![t] = Pop(@)]
              /\ itsDefCallsMutex' = NoTask
              /\ UNCHANGED itsRecursiveCallsQueue
    /\ UNCHANGED <<registryVars, poolVars, budget, fatal, gh>>

\* the condition of the drain loop: while (!itsRecursiveCallsQueue.empty()),
\* a read of the shared queue, not of recursiveCallsQueueCopy
DrainContinues(copy) == itsRecursiveCallsQueue # <<>>

\* runQueuedCalls: the loop condition, then recursiveCallsQueueCopy.front()();
\* front() of an empty copy is undefined
runQueuedCallsLoop(t) ==
    /\ At(t, "op", "rqc_loop")
    /\ LET f == Top(t) IN
         \E outcome \in (IF DrainContinues(f.copy) /\ f.copy = <<>>
                            THEN {"crash", "go on"} ELSE {"defined"}) :
           IF ~DrainContinues(f.copy)
             THEN \* the local copy is destroyed with what it still holds
                  /\ stack' = [stack EXCEPT ![t] = Pop(@)]
                  /\ gh' = [gh EXCEPT !.dropped = @ \cup {f.copy[i].id : i \in DOMAIN f.copy}]
                  /\ UNCHANGED <<fatal, itsPubSubMutex>>
             ELSE IF f.copy = <<>>
               THEN /\ gh' = [gh EXCEPT !.ub = @ \cup {"front"}]
                    /\ fatal' = IF outcome = "crash" THEN "front_of_empty_queue" ELSE fatal
                    /\ stack' = [stack EXCEPT ![t] = SetTop(@, [f EXCEPT !.pc = "rqc_pop"])]
                    /\ UNCHANGED itsPubSubMutex
               ELSE /\ stack' = [stack EXCEPT ![t] = Append(SetTop(@, [f EXCEPT !.pc = "rqc_pop"]),
                                     Enter(t, Head(f.copy), ThunkGuarded(Head(f.copy))))]
                    /\ itsPubSubMutex' = Locked(t, Head(f.copy), ThunkGuarded(Head(f.copy)))
                    /\ UNCHANGED <<fatal, gh>>
    /\ UNCHANGED <<itsSubscriptions, poolVars, itsDefCallsMutex, itsRecursiveCallsQueue, budget>>

\* runQueuedCalls: recursiveCallsQueueCopy.pop()
runQueuedCallsPop(t) ==
    /\ At(t, "op", "rqc_pop")
    /\ stack' = [stack EXCEPT ![t] = SetTop(@, [Top(t) EXCEPT
                     !.copy = IF @ = <<>> THEN <<>> ELSE Tail(@), !.pc = "rqc_loop"])]
    /\ UNCHANGED <<registryVars, poolVars, itsDefCallsMutex, itsRecursiveCallsQueue,
                   budget, fatal, gh>>

\* the else branch of an entry point: std::lock_guard lock(itsDefCallsMutex)
deferLock(t) ==
    /\ At(t, "op", "enq_lock")
    /\ itsDefCallsMutex = NoTask
    /\ itsDefCallsMutex' = t
    /\ stack' = [stack EXCEPT ![t] = SetTop(@, [Top(t) EXCEPT !.pc = "enq_put"])]
    /\ UNCHANGED <<registryVars, poolVars, itsRecursiveCallsQueue, budget, fatal, gh>>

\* itsRecursiveCallsQueue.emplace(thunk); the lock_guard unlocks on return
deferEmplace(t) ==
    /\ At(t, "op", "enq_put")
    /\ itsRecursiveCallsQueue' = Append(itsRecursiveCallsQueue, Top(t).op)
    /\ itsDefCallsMutex' = NoTask
    /\ stack' = [stack EXCEPT ![t] = Pop(@)]
    /\ UNCHANGED <<registryVars, poolVars, budget, fatal, gh>>

(* ----------------------------------------------------------- specification *)
Next ==
    \/ \E t \in DOMAIN stack : Call(t)
    \/ \E t \in DOMAIN stack : subscribeUnguarded(t)
    \/ \E t \in DOMAIN stack : unsubscribeUnguarded(t)
    \/ \E t \in DOMAIN stack : clearUnguardedChannel(t)
    \/ \E t \in DOMAIN stack : clearUnguarded(t)
    \/ \E t \in DOMAIN stack : publishUnguarded(t)
    \/ \E t \in DOMAIN stack : publishAsyncUnguarded(t)
    \/ \E t \in DOMAIN stack : getQueueListLock(t)
    \/ \E t \in DOMAIN stack : getQueueListFind(t)
    \/ \E t \in DOMAIN stack : getQueueListCreate(t)
    \/ \E t \in DOMAIN stack : getQueueListCreateTask(t)
    \/ \E t \in DOMAIN stack : addDeferredCallSend(t)
    \/ \E key \in DOMAIN tasks : callerTask(key)
    \/ \E t \in DOMAIN stack : callbackPrint(t)
    \/ \E t \in DOMAIN stack : callbackPublish(t)
    \/ \E t \in DOMAIN stack : callbackSubscribe(t)
    \/ \E t \in DOMAIN stack : runQueuedCallsLock(t)
    \/ \E t \in DOMAIN stack : runQueuedCallsSwap(t)
    \/ \E t \in DOMAIN stack : runQueuedCallsLoop(t)
    \/ \E t \in DOMAIN stack : runQueuedCallsPop(t)
    \/ \E t \in DOMAIN stack : deferLock(t)
    \/ \E t \in DOMAIN stack : deferEmplace(t)

Spec == Init /\ [][Next]_vars

(* ------------------------------------ the subscribe calls without a name *)
\* the subscribe functions that take no callback name, with the results of
\* rand() their generateRandomString() draws
Unnamed(t) ==
    {subscribeSyncAuto(t, "X", "print", rs) : rs \in RandDraws}
    \cup (IF t = T1 THEN {subscribeAsyncWithPrio(t, "X", "print", 0, rs) : rs \in RandDraws}
                    ELSE {})

\* a client task calls subscribeSync(channel, callback) or
\* subscribeAsyncWithPrio(channel, callback, priority): subscribe(p_channel,
\* p_callback, ...) generates the name and calls the subscribe with a name
CallUnnamed(t) ==
    /\ fatal = NoFatal
    /\ t \in Users
    /\ stack[t] = <<>>
    /\ budget[T1] + budget[T2] < MaxCalls
    /\ t = T2 => budget[t] < MaxCallsT2
    /\ \E op \in Unnamed(t) :
         LET call == [op EXCEPT !.id = NextId(t)] IN
           /\ stack' = [stack EXCEPT ![t] = <<Enter(t, call, TRUE)>>]
           /\ itsPubSubMutex' = Locked(t, call, TRUE)
           /\ gh' = [Counted(t) EXCEPT !.unnamed = @ \cup {call.id}]
    /\ budget' = [budget EXCEPT ![t] = @ + 1]
    /\ UNCHANGED <<itsSubscriptions, poolVars, itsDefCallsMutex, itsRecursiveCallsQueue, fatal>>

NextUnnamed ==
    \/ \E t \in DOMAIN stack : CallUnnamed(t)
    \/ \E t \in DOMAIN stack : subscribeUnguarded(t)
    \/ \E t \in DOMAIN stack : runQueuedCallsLock(t)
    \/ \E t \in DOMAIN stack : runQueuedCallsSwap(t)
    \/ \E t \in DOMAIN stack : runQueuedCallsLoop(t)
    \/ \E t \in DOMAIN stack : deferLock(t)
    \/ \E t \in DOMAIN stack : deferEmplace(t)

SpecUnnamed == Init /\ [][NextUnnamed]_vars

(* -------------------------------------------- the pool used on its own *)
\* dcq.addDeferredCall([i]() { coutCapture << i << " "; }, p_priority, p_core_id)
addDeferredCall(arg, p_priority, p_core_id) ==
    [NoOp EXCEPT !.type = "addDeferredCall", !.cb = "print", !.arg = arg,
                 !.prio = p_priority, !.aff = p_core_id]

\* the callable of a direct submission
Callable(op) == [NoSub EXCEPT !.cb = op.cb]

\* the submissions of the pool's clients: the loops of the pool tests on the
\* main task (priority 0, or i % 2 in the priority test, on its own core), and
\* a second task on the other core that asks for its own core or for the core
\* of the first
Submits(t) ==
    IF t = T1
      THEN {addDeferredCall(budget[t], budget[t] % gh.modulus, itsCurrentAffinity)}
      ELSE {addDeferredCall(budget[t], 0, c) : c \in {itsCurrentAffinity, UserCore(T1)}}

\* a client task enters addDeferredCall: the callable is copied with its
\* arguments and the core is resolved
Submit(t) ==
    /\ fatal = NoFatal
    /\ t \in Users
    /\ stack[t] = <<>>
    /\ budget[t] < gh.upperLimit[t]
    /\ \E op \in Submits(t) :
         LET call == [op EXCEPT !.id = NextId(t)]
             coreId == ResolveCore(t, op.aff)
         IN /\ stack' = [stack EXCEPT ![t] =
                           <<AdcFrame(call, NoName, Callable(op), op.prio, coreId)>>]
            /\ gh' = [Counted(t) EXCEPT !.subm = @ \cup
                        {[id |-> call.id, key |-> QueueKey(op.prio, coreId), arg |-> op.arg,
                          prio |-> op.prio, aff |-> op.aff, by |-> <<>>]}]
    /\ budget' = [budget EXCEPT ![t] = @ + 1]
    /\ UNCHANGED <<registryVars, poolVars, itsDefCallsMutex, itsRecursiveCallsQueue, fatal>>

NextPool ==
    \/ \E t \in DOMAIN stack : Submit(t)
    \/ \E t \in DOMAIN stack : getQueueListLock(t)
    \/ \E t \in DOMAIN stack : getQueueListFind(t)
    \/ \E t \in DOMAIN stack : getQueueListCreate(t)
    \/ \E t \in DOMAIN stack : getQueueListCreateTask(t)
    \/ \E t \in DOMAIN stack : addDeferredCallSend(t)
    \/ \E key \in DOMAIN tasks : callerTask(key)
    \/ \E t \in DOMAIN stack : callbackPrint(t)

\* the number of submissions each client's loop makes: one task overflowing a
\* queue on its own (upperLimit = itsQueueSize + 3), or two tasks side by side
UpperLimits ==
    {[t \in Users |-> IF t = T1 THEN MaxSubmits ELSE 0],
     [t \in Users |-> IF t = T1 THEN MaxSubmitsT1 ELSE MaxSubmitsT2]}

InitPool ==
    /\ itsSubscriptions = [c \in {} |-> EmptyMap]
    /\ itsPubSubMutex = [writer |-> NoTask, readers |-> EmptyBag]
    /\ itsDefCallsMutex = NoTask
    /\ itsRecursiveCallsQueue = <<>>
    /\ itsQueueListMutex = NoTask
    /\ itsQueueList = [k \in {} |-> <<>>]
    /\ tasks = [k \in {} |-> [prio |-> 0, core |-> 0]]
    /\ stack = [t \in Users |-> <<>>]
    /\ budget = [t \in Users |-> 0]
    /\ fatal = NoFatal
    /\ \E u \in UpperLimits :
         gh = [ncall |-> [t \in Users |-> 0], executed |-> EmptyBag, dropped |-> {},
               nested |-> {}, erased |-> {}, ub |-> {}, order |-> <<>>, pubs |-> {},
               queues |-> EmptyBag, workers |-> EmptyBag, waited |-> {}, subm |-> {},
               upperLimit |-> u, unnamed |-> {}, modulus |-> 1]

SpecPool == InitPool /\ [][NextPool]_vars

(* ------------------------- callbacks that change the channel they run for *)
\* the callback calls unsubscribe(channel, name), with its own name or with
\* that of the subscriber after it
callbackUnsubscribe(t) ==
    /\ At(t, "cb", "run")
    /\ Statement(Top(t)).s = "unsubscribe"
    /\ LET f == Top(t)
           st == Statement(f)
           call == [unsubscribe(st.ch, IF st.self THEN f.name ELSE NameB)
                       EXCEPT !.id = NextId(t)]
       IN /\ stack' = [stack EXCEPT ![t] = Append(
                         SetTop(@, [f EXCEPT !.ip = @ + 1, !.ids = Append(@, call.id)]),
                         Enter(t, call, TRUE))]
          /\ itsPubSubMutex' = Locked(t, call, TRUE)
    /\ gh' = Counted(t)
    /\ UNCHANGED <<itsSubscriptions, poolVars, itsDefCallsMutex, itsRecursiveCallsQueue,
                   budget, fatal>>

\* the callback calls clear(channel)
callbackClear(t) ==
    /\ At(t, "cb", "run")
    /\ Statement(Top(t)).s = "clear"
    /\ LET f == Top(t)
           st == Statement(f)
           call == [clear(st.ch) EXCEPT !.id = NextId(t)]
       IN /\ stack' = [stack EXCEPT ![t] = Append(
                         SetTop(@, [f EXCEPT !.ip = @ + 1, !.ids = Append(@, call.id)]),
                         Enter(t, call, TRUE))]
          /\ itsPubSubMutex' = Locked(t, call, TRUE)
    /\ gh' = Counted(t)
    /\ UNCHANGED <<itsSubscriptions, poolVars, itsDefCallsMutex, itsRecursiveCallsQueue,
                   budget, fatal>>

\* the callbacks the first subscriber of channel "X" is given
ReentrantCallbacks == {"unsubX", "subX", "clearX"}

\* task 1 publishes to the channel of the reentrant subscriber, task 2 to a
\* channel nobody subscribed to
MenuReentrant(t) == IF t = T1 THEN {publish("X", 43)} ELSE {publish("Y", 45)}

\* a client task calls publish; what the channel holds when the call gets the
\* lock shared is kept
CallReentrant(t) ==
    /\ fatal = NoFatal
    /\ t \in Users
    /\ stack[t] = <<>>
    /\ budget[t] < gh.upperLimit[t]
    /\ \E op \in MenuReentrant(t) :
         LET call == [op EXCEPT !.id = NextId(t)] IN
           /\ stack' = [stack EXCEPT ![t] = <<Enter(t, call, TRUE)>>]
           /\ itsPubSubMutex' = Locked(t, call, TRUE)
           /\ gh' = [Counted(t) EXCEPT !.pubs = @ \cup
                        IF Acquires(t, call)
                          THEN {[id |-> call.id, ch |-> op.ch, names |-> Subscribers(op.ch)]}
                          ELSE {}]
    /\ budget' = [budget EXCEPT ![t] = @ + 1]
    /\ UNCHANGED <<itsSubscriptions, poolVars, itsDefCallsMutex, itsRecursiveCallsQueue, fatal>>

\* the state after task 1 has called subscribeSync("X", "a", cb) with one of
\* the reentrant callbacks and subscribeSync("X", "b", print)
InitReentrant ==
    /\ \E cb \in ReentrantCallbacks :
         itsSubscriptions =
            ("X" :> (NameA :> MapEntryType(subscribeSync(T1, "X", NameA, cb))
                     @@ NameB :> MapEntryType(subscribeSync(T1, "X", NameB, "print"))))
    /\ itsPubSubMutex = [writer |-> NoTask, readers |-> EmptyBag]
    /\ itsDefCallsMutex = NoTask
    /\ itsRecursiveCallsQueue = <<>>
    /\ itsQueueListMutex = NoTask
    /\ itsQueueList = [k \in {} |-> <<>>]
    /\ tasks = [k \in {} |-> [prio |-> 0, core |-> 0]]
    /\ stack = [t \in Users |-> <<>>]
    /\ budget = [t \in Users |-> 0]
    /\ fatal = NoFatal
    /\ gh = [ncall |-> [t \in Users |-> IF t = T1 THEN 2 ELSE 0], executed |-> EmptyBag,
             dropped |-> {}, nested |-> {}, erased |-> {}, ub |-> {},
             order |-> << <<"X", NameA>>, <<"X", NameB>> >>, pubs |-> {},
             queues |-> EmptyBag, workers |-> EmptyBag, waited |-> {}, subm |-> {},
             upperLimit |-> [t \in Users |-> IF t = T1 THEN MaxReentrant ELSE MaxReentrantT2],
             unnamed |-> {}, modulus |-> 1]

NextReentrant ==
    \/ \E t \in DOMAIN stack : CallReentrant(t)
    \/ \E t \in DOMAIN stack : publishUnguarded(t)
    \/ \E t \in DOMAIN stack : subscribeUnguarded(t)
    \/ \E t \in DOMAIN stack : unsubscribeUnguarded(t)
    \/ \E t \in DOMAIN stack : clearUnguardedChannel(t)
    \/ \E t \in DOMAIN stack : callbackPrint(t)
    \/ \E t \in DOMAIN stack : callbackSubscribe(t)
    \/ \E t \in DOMAIN stack : callbackUnsubscribe(t)
    \/ \E t \in DOMAIN stack : callbackClear(t)
    \/ \E t \in DOMAIN stack : runQueuedCallsLock(t)
    \/ \E t \in DOMAIN stack : runQueuedCallsSwap(t)
    \/ \E t \in DOMAIN stack : runQueuedCallsLoop(t)
    \/ \E t \in DOMAIN stack : runQueuedCallsPop(t)
    \/ \E t \in DOMAIN stack : deferLock(t)
    \/ \E t \in DOMAIN stack : deferEmplace(t)

SpecReentrant == InitReentrant /\ [][NextReentrant]_vars

(* ------------------------------------------- callables that submit again *)
\* dcq.addDeferredCall([]() { coutCapture << "deferred call1\n";
\*     DeferredCallsQueue::get().addDeferredCall([]() { ... }, 0); }): with the
\* default priority ESP_TASK_MAIN_PRIO, or with priority 0, the key of the
\* nested submission
SubmitsRecursive(t) ==
    {[addDeferredCall(1, p, itsCurrentAffinity) EXCEPT !.cb = "resubmit"] :
        p \in {ESP_TASK_MAIN_PRIO, 0}}

\* the client task enters addDeferredCall with such a callable
SubmitRecursive(t) ==
    /\ fatal = NoFatal
    /\ t \in Users
    /\ stack[t] = <<>>
    /\ budget[t] < gh.upperLimit[t]
    /\ \E op \in SubmitsRecursive(t) :
         LET call == [op EXCEPT !.id = NextId(t)]
             coreId == ResolveCore(t, op.aff)
         IN /\ stack' = [stack EXCEPT ![t] =
                           <<AdcFrame(call, NoName, Callable(op), op.prio, coreId)>>]
            /\ gh' = [Counted(t) EXCEPT !.subm = @ \cup
                        {[id |-> call.id, key |-> QueueKey(op.prio, coreId), arg |-> op.arg,
                          prio |-> op.prio, aff |-> op.aff, by |-> <<>>]}]
    /\ budget' = [budget EXCEPT ![t] = @ + 1]
    /\ UNCHANGED <<registryVars, poolVars, itsDefCallsMutex, itsRecursiveCallsQueue, fatal>>

\* the callable, run by a worker, calls addDeferredCall(callable, priority)
\* with the default core: the current affinity is that of the worker
callbackSubmit(t) ==
    /\ At(t, "cb", "run")
    /\ Statement(Top(t)).s = "addDeferredCall"
    /\ LET f == Top(t)
           st == Statement(f)
           op == [addDeferredCall(st.arg, st.prio, itsCurrentAffinity) EXCEPT !.cb = st.cb]
           call == [op EXCEPT !.id = NextId(t)]
           coreId == ResolveCore(t, op.aff)
       IN /\ stack' = [stack EXCEPT ![t] =
                         Append(AfterStatement(@, f),
                                AdcFrame(call, NoName, Callable(op), op.prio, coreId))]
          /\ gh' = [Counted(t) EXCEPT !.subm = @ \cup
                      {[id |-> call.id, key |-> QueueKey(op.prio, coreId), arg |-> op.arg,
                        prio |-> op.prio, aff |-> op.aff, by |-> f.op.id]}]
    /\ UNCHANGED <<registryVars, poolVars, itsDefCallsMutex, itsRecursiveCallsQueue,
                   budget, fatal>>

InitNested ==
    /\ itsSubscriptions = [c \in {} |-> EmptyMap]
    /\ itsPubSubMutex = [writer |-> NoTask, readers |-> EmptyBag]
    /\ itsDefCallsMutex = NoTask
    /\ itsRecursiveCallsQueue = <<>>
    /\ itsQueueListMutex = NoTask
    /\ itsQueueList = [k \in {} |-> <<>>]
    /\ tasks = [k \in {} |-> [prio |-> 0, core |-> 0]]
    /\ stack = [t \in Users |-> <<>>]
    /\ budget = [t \in Users |-> 0]
    /\ fatal = NoFatal
    /\ gh = [ncall |-> [t \in Users |-> 0], executed |-> EmptyBag, dropped |-> {},
             nested |-> {}, erased |-> {}, ub |-> {}, order |-> <<>>, pubs |-> {},
             queues |-> EmptyBag, workers |-> EmptyBag, waited |-> {}, subm |-> {},
             upperLimit |-> [t \in Users |-> IF t = T1 THEN MaxRecursive ELSE 0],
             unnamed |-> {}, modulus |-> 1]

NextNested ==
    \/ \E t \in DOMAIN stack : SubmitRecursive(t)
    \/ \E t \in DOMAIN stack : getQueueListLock(t)
    \/ \E t \in DOMAIN stack : getQueueListFind(t)
    \/ \E t \in DOMAIN stack : getQueueListCreate(t)
    \/ \E t \in DOMAIN stack : getQueueListCreateTask(t)
    \/ \E t \in DOMAIN stack : addDeferredCallSend(t)
    \/ \E key \in DOMAIN tasks : callerTask(key)
    \/ \E t \in DOMAIN stack : callbackPrint(t)
    \/ \E t \in DOMAIN stack : callbackSubmit(t)

SpecNested == InitNested /\ [][NextNested]_vars

(* ------------------------------------ submissions under many dispatch keys *)
\* priorities below 2^16: the lowest, that of the main task, the highest
KeyPriorities == {0, ESP_TASK_MAIN_PRIO, TwoPow16 - 1}
\* the affinities a caller passes: the default, the two cores, no affinity
KeyAffinities == {itsCurrentAffinity, 0, 1, tskNO_AFFINITY}

SubmitsKeyed(t) ==
    {addDeferredCall(budget[t], p, c) : p \in KeyPriorities, c \in KeyAffinities}

\* the client task enters addDeferredCall(callable, p_priority, p_core_id)
SubmitKeyed(t) ==
    /\ fatal = NoFatal
    /\ t \in Users
    /\ stack[t] = <<>>
    /\ budget[t] < gh.upperLimit[t]
    /\ \E op \in SubmitsKeyed(t) :
         LET call == [op EXCEPT !.id = NextId(t)]
             coreId == ResolveCore(t, op.aff)
         IN /\ stack' = [stack EXCEPT ![t] =
                           <<AdcFrame(call, NoName, Callable(op), op.prio, coreId)>>]
            /\ gh' = [Counted(t) EXCEPT !.subm = @ \cup
                        {[id |-> call.id, key |-> QueueKey(op.prio, coreId), arg |-> op.arg,
                          prio |-> op.prio, aff |-> op.aff, by |-> <<>>]}]
    /\ budget' = [budget EXCEPT ![t] = @ + 1]
    /\ UNCHANGED <<registryVars, poolVars, itsDefCallsMutex, itsRecursiveCallsQueue, fatal>>

InitKeyed ==
    /\ itsSubscriptions = [c \in {} |-> EmptyMap]
    /\ itsPubSubMutex = [writer |-> NoTask, readers |-> EmptyBag]
    /\ itsDefCallsMutex = NoTask
    /\ itsRecursiveCallsQueue = <<>>
    /\ itsQueueListMutex = NoTask
    /\ itsQueueList = [k \in {} |-> <<>>]
    /\ tasks = [k \in {} |-> [prio |-> 0, core |-> 0]]
    /\ stack = [t \in Users |-> <<>>]
    /\ budget = [t \in Users |-> 0]
    /\ fatal = NoFatal
    /\ gh = [ncall |-> [t \in Users |-> 0], executed |-> EmptyBag, dropped |-> {},
             nested |-> {}, erased |-> {}, ub |-> {}, order |-> <<>>, pubs |-> {},
             queues |-> EmptyBag, workers |-> EmptyBag, waited |-> {}, subm |-> {},
             upperLimit |-> [t \in Users |-> IF t = T1 THEN MaxKeyed ELSE 0],
             unnamed |-> {}, modulus |-> 1]

NextKeyed ==
    \/ \E t \in DOMAIN stack : SubmitKeyed(t)
    \/ \E t \in DOMAIN stack : getQueueListLock(t)
    \/ \E t \in DOMAIN stack : getQueueListFind(t)
    \/ \E t \in DOMAIN stack : getQueueListCreate(t)
    \/ \E t \in DOMAIN stack : getQueueListCreateTask(t)
    \/ \E t \in DOMAIN stack : addDeferredCallSend(t)
    \/ \E key \in DOMAIN tasks : callerTask(key)
    \/ \E t \in DOMAIN stack : callbackPrint(t)

SpecKeyed == InitKeyed /\ [][NextKeyed]_vars

(* ------------------------------------- the pool under the task scheduler *)
\* the loops of TEST_CASE queue size (itsQueueSize submissions of priority 0)
\* and TEST_CASE priority (itsQueueSize / 2 submissions of priority i % 2),
\* run by the main task
Programs ==
    {[upperLimit |-> [t \in Users |-> IF t = T1 THEN itsQueueSize ELSE 0], modulus |-> 1],
     [upperLimit |-> [t \in Users |-> IF t = T1 THEN itsQueueSize \div 2 ELSE 0], modulus |-> 2]}

InitSched ==
    /\ itsSubscriptions = [c \in {} |-> EmptyMap]
    /\ itsPubSubMutex = [writer |-> NoTask, readers |-> EmptyBag]
    /\ itsDefCallsMutex = NoTask
    /\ itsRecursiveCallsQueue = <<>>
    /\ itsQueueListMutex = NoTask
    /\ itsQueueList = [k \in {} |-> <<>>]
    /\ tasks = [k \in {} |-> [prio |-> 0, core |-> 0]]
    /\ stack = [t \in Users |-> <<>>]
    /\ budget = [t \in Users |-> 0]
    /\ fatal = NoFatal
    /\ \E prog \in Programs :
         gh = [ncall |-> [t \in Users |-> 0], executed |-> EmptyBag, dropped |-> {},
               nested |-> {}, erased |-> {}, ub |-> {}, order |-> <<>>, pubs |-> {},
               queues |-> EmptyBag, workers |-> EmptyBag, waited |-> {}, subm |-> {},
               upperLimit |-> prog.upperLimit, unnamed |-> {}, modulus |-> prog.modulus]

\* task t is ready to run: a client in its loop that is not blocked in
\* itsQueueListMutex.lock() or in xQueueSend on a full queue (after its loop
\* it sleeps in usleep), a worker inside a callable or with an entry to receive
Ready(t) ==
    IF t \in Users
      THEN IF stack[t] = <<>> THEN budget[t] < gh.upperLimit[t]
           ELSE /\ Top(t).pc = "gql_lock" => LockAvailable(itsQueueListMutex)
                /\ Top(t).pc = "send_wait" => ~QueueFull(itsQueueList[Top(t).key])
      ELSE stack[t] # <<>> \/ itsQueueList[t[2]] # <<>>

\* a scheduler that lets any task run
ScheduledAnyway(t) == TRUE

\* the FreeRTOS scheduler runs, on each core, a ready task of the highest
\* priority among the ready tasks of that core (workers are created with
\* xTaskCreatePinnedToCore(..., p_priority, NULL, p_core_id)): task t does not
\* run while a task of higher priority is ready on its core
Scheduled(t) ==
    \A u \in DOMAIN stack :
        u # t /\ TaskCore(u) = TaskCore(t) /\ Ready(u) => TaskPrio(u) <= TaskPrio(t)

NextSched ==
    \/ \E t \in DOMAIN stack : Scheduled(t) /\ Submit(t)
    \/ \E t \in DOMAIN stack : Scheduled(t) /\ getQueueListLock(t)
    \/ \E t \in DOMAIN stack : Scheduled(t) /\ getQueueListFind(t)
    \/ \E t \in DOMAIN stack : Scheduled(t) /\ getQueueListCreate(t)
    \/ \E t \in DOMAIN stack : Scheduled(t) /\ getQueueListCreateTask(t)
    \/ \E t \in DOMAIN stack : Scheduled(t) /\ addDeferredCallSend(t)
    \/ \E key \in DOMAIN tasks : Scheduled(Worker(key)) /\ callerTask(key)
    \/ \E t \in DOMAIN stack : Scheduled(t) /\ callbackPrint(t)

SpecSched == InitSched /\ [][NextSched]_vars

TypeOK ==
    /\ DOMAIN itsSubscriptions \subseteq Channels
    /\ fatal \in {NoFatal, "duplicate_name", "queue_full_timeout",
                   "front_of_empty_queue", "dangling_iterator"}
    /\ \A t \in Users : budget[t] \in 0..MaxCalls \cup 0..MaxSubmits
    /\ \A k \in DOMAIN itsQueueList : Len(itsQueueList[k]) \in 0..itsQueueSize

(* ------------------------------------------------------------------ claims *)
\* the positions <<task, depth>> of the frames on the stacks of the tasks
Live == UNION {{<<t, i>> : i \in DOMAIN stack[t]} : t \in DOMAIN stack}
FrameAt(p) == stack[p[1]][p[2]]
Ascending(names) ==
    \A j, k \in DOMAIN names : j < k => LexLess(names[j], names[k])
Before(seq, x, y) ==
    \E j, k \in DOMAIN seq : j < k /\ seq[j] = x /\ seq[k] = y

\* C1: within one publish or publishAsync call the subscribers of the channel
\* are visited (invoked or submitted) in ascending lexicographic order of
\* their names, whatever the order they were subscribed in
C1_VisitedInNameOrder ==
    \A p \in Live :
        (FrameAt(p).kind = "op" /\ IsShared(FrameAt(p).op) /\ "iterator" \notin gh.ub)
            => Ascending(FrameAt(p).vis)
\* "b" was subscribed before "a" on the channel and a publish has visited both
C1_Witness ==
    /\ Before(gh.order, <<"X", NameB>>, <<"X", NameA>>)
    /\ \E p \in Live : /\ FrameAt(p).kind = "op"
                        /\ FrameAt(p).op.type = "publish"
                        /\ FrameAt(p).op.ch = "X"
                        /\ FrameAt(p).vis = <<NameA, NameB>>

\* the callback activation at position p has just got back the control from
\* the publish it called as its statement before ip
BackFromPublish(p) ==
    /\ FrameAt(p).kind = "cb"
    /\ p[2] = Len(stack[p[1]])
    /\ FrameAt(p).ip > 1
    /\ CallbackBody(FrameAt(p).sub.cb)[FrameAt(p).ip - 1].s = "publish"
\* the id of that publish call, and its channel
LastCall(p) == FrameAt(p).ids[Len(FrameAt(p).ids)]
LastChannel(p) == CallbackBody(FrameAt(p).sub.cb)[FrameAt(p).ip - 1].ch
SyncSubscribers(ch) ==
    IF ch \in DOMAIN itsSubscriptions
      THEN {n \in DOMAIN itsSubscriptions[ch] : ~itsSubscriptions[ch][n].async}
      ELSE {}
\* the number of times the callback of subscription name has written its
\* output for the publish call id (inline or on a worker)
Runs(id, name) ==
    LET recs == {r \in DOMAIN gh.executed : r.id = id /\ r.name = name}
        RECURSIVE Sum(_)
        Sum(S) == IF S = {} THEN 0
                  ELSE LET r == CHOOSE x \in S : TRUE IN gh.executed[r] + Sum(S \ {r})
    IN Sum(recs)
RunsInline(id, name) ==
    LET recs == {r \in DOMAIN gh.executed : r.id = id /\ r.name = name /\ r.inl}
    IN IF recs = {} THEN 0 ELSE gh.executed[CHOOSE r \in recs : TRUE]

\* C2: when a synchronous subscriber calls publish(Y) from inside its callback,
\* every synchronous subscriber of Y has run to completion, once, by the time
\* the nested publish returns, and the rest of the calling callback (its own
\* output) has not run yet: the output order is "y" then "x"
C2_NestedPublishRunsInline ==
    \A p \in Live :
        (BackFromPublish(p) /\ FrameAt(p).inl)
            => /\ \A n \in SyncSubscribers(LastChannel(p)) :
                       RunsInline(LastCall(p), n) = 1
               /\ Runs(FrameAt(p).op.id, FrameAt(p).name) = 0
\* the nested publish(Y) of a callback run by publish has returned and Y has
\* a synchronous subscriber
C2_Witness ==
    \E p \in Live : /\ BackFromPublish(p)
                     /\ FrameAt(p).inl
                     /\ FrameAt(p).sub.cb = "pubY"
                     /\ SyncSubscribers(LastChannel(p)) # {}
                     /\ \A n \in SyncSubscribers(LastChannel(p)) :
                            RunsInline(LastCall(p), n) = 1

\* a delivery of the publish call id to the subscription name of channel ch:
\* its callback has run, runs, or is being submitted or queued
Delivered(id, ch, name) ==
    \/ Runs(id, name) > 0
    \/ \E q \in Live : /\ FrameAt(q).kind \in {"cb", "adc"}
                        /\ FrameAt(q).op.id = id
                        /\ FrameAt(q).name = name
    \/ \E k \in DOMAIN itsQueueList : \E i \in DOMAIN itsQueueList[k] :
           itsQueueList[k][i].op.id = id /\ itsQueueList[k][i].name = name

\* C3: a subscription made from inside a callback that publish runs inline is
\* not visible to a publish the same callback issues afterwards: while the
\* callback is active the new handler is not in the registry and gets no
\* delivery from any call the callback has made
C3_NestedSubscribeNotVisible ==
    \A p \in Live :
        (FrameAt(p).kind = "cb" /\ FrameAt(p).inl)
            => \A s \in FrameAt(p).nested :
                   /\ ~Registered(s[1], s[2])
                   /\ \A i \in DOMAIN FrameAt(p).ids :
                          ~Delivered(FrameAt(p).ids[i], s[1], s[2])
\* a callback run by publish has subscribed a new handler to Y and its
\* publish(Y) after that has returned
C3_Witness ==
    \E p \in Live : /\ BackFromPublish(p)
                     /\ FrameAt(p).inl
                     /\ \E s \in FrameAt(p).nested : s[1] = LastChannel(p)

\* every call has returned, no thunk waits on itsRecursiveCallsQueue and the
\* process has not aborted
Returned ==
    /\ fatal = NoFatal
    /\ \A t \in DOMAIN stack : stack[t] = <<>>
    /\ itsRecursiveCallsQueue = <<>>

\* C4: a subscription made from inside a callback that publish runs inline has
\* taken effect once the outermost publish has returned: with every call
\* returned and nothing left queued it is in the registry (unless an
\* unsubscribe or clear has removed it since)
C4_NestedSubscribeTakesEffect ==
    Returned =>
        \A r \in gh.nested :
            Registered(r.ch, r.name) \/ <<r.ch, r.name>> \in gh.erased

\* C5: no operation appended to itsRecursiveCallsQueue is discarded without
\* being executed
C5_NoQueuedCallDiscarded == gh.dropped = {}

\* task t is in subscribeUnguarded with a name its channel already holds
Duplicate(t) ==
    /\ At(t, "op", "body")
    /\ Top(t).op.type = "subscribe"
    /\ Registered(Top(t).op.ch, Top(t).op.name)

\* C6: subscribing a name the channel already holds ends in the fatal
\* duplicate-name error (the call never completes) with the registry as it
\* was, and no step overwrites a subscription: an entry present before and
\* after a step has its callback, priority, affinity and alwaysAsync flag
\* unchanged
C6_DuplicateNameFatal ==
    [][ /\ \A t \in DOMAIN stack : Duplicate(t) => stack'[t] = stack[t]
        /\ \A t \in DOMAIN stack :
               (Duplicate(t) /\ fatal' = "duplicate_name")
                   => itsSubscriptions' = itsSubscriptions
        /\ \A ch \in DOMAIN itsSubscriptions : \A n \in DOMAIN itsSubscriptions[ch] :
               (ch \in DOMAIN itsSubscriptions' /\ n \in DOMAIN itsSubscriptions'[ch])
                   => itsSubscriptions'[ch][n] = itsSubscriptions[ch][n]
      ]_vars
\* the process has ended in the duplicate-name error of a subscribe whose
\* arguments differ from the entry the channel holds, which is still there
C6_Witness ==
    /\ fatal = "duplicate_name"
    /\ \E t \in DOMAIN stack :
           /\ stack[t] # <<>>
           /\ Top(t).op.type = "subscribe"
           /\ Registered(Top(t).op.ch, Top(t).op.name)
           /\ itsSubscriptions[Top(t).op.ch][Top(t).op.name] # MapEntryType(Top(t).op)

\* task t waits in itsDefCallsMutex.lock() of an entry point or of
\* runQueuedCalls
WaitsForDefCalls(t) ==
    /\ At(t, "op", "rqc_lock") \/ At(t, "op", "enq_lock")
    /\ itsDefCallsMutex # NoTask
\* task t waits in itsQueueListMutex.lock()
WaitsForQueueList(t) == At(t, "adc", "gql_lock") /\ itsQueueListMutex # NoTask

\* C7: no registry operation blocks on contention and no tasks deadlock on
\* the two locks of the registry: nothing ever waits for itsPubSubMutex (it is
\* only tried), and whoever holds itsDefCallsMutex is another task than the
\* one waiting for it, is inside the short section that swaps or appends to
\* the queue, and waits for nothing itself
C7_NoDeadlockOnRegistryLocks ==
    \A t \in DOMAIN stack :
        WaitsForDefCalls(t)
            => /\ itsDefCallsMutex # t
               /\ itsDefCallsMutex \in DOMAIN stack
               /\ stack[itsDefCallsMutex] # <<>>
               /\ Top(itsDefCallsMutex).pc \in {"rqc_swap", "enq_put"}
               /\ ~WaitsForDefCalls(itsDefCallsMutex)
               /\ ~WaitsForQueueList(itsDefCallsMutex)
\* a subscribe called from inside a callback did not get itsPubSubMutex and
\* waits for itsDefCallsMutex, which another task holds
C7_Witness ==
    \E t \in DOMAIN stack :
        /\ WaitsForDefCalls(t)
        /\ Len(stack[t]) > 1
        /\ Top(t).pc = "enq_lock"
        /\ Top(t).op.type = "subscribe"
        /\ itsDefCallsMutex # t

\* the submissions to the DeferredCallsQueue: the addDeferredCall activations
\* and the entries of the queues, as [op, name, sub, prio, core]
Submissions ==
    {QueueEntry(FrameAt(p)) : p \in {q \in Live : FrameAt(q).kind = "adc"}}
    \cup UNION {{itsQueueList[k][i] : i \in DOMAIN itsQueueList[k]} : k \in DOMAIN itsQueueList}
\* the queue entries lie in the queue of the key of their priority and core
KeyedBy(k) == \A i \in DOMAIN itsQueueList[k] :
                  k = QueueKey(itsQueueList[k][i].prio, itsQueueList[k][i].core)
\* the callback activation at p is run by the publish frame just below it
InlineOf(p) ==
    /\ p[2] > 1
    /\ stack[p[1]][p[2] - 1].kind = "op"
    /\ stack[p[1]][p[2] - 1].op = FrameAt(p).op
    /\ stack[p[1]][p[2] - 1].pc = "body"
    /\ stack[p[1]][p[2] - 1].cur = FrameAt(p).name

\* C8: in publish a subscriber with alwaysAsync unset has its callback run on
\* the publishing task, inside publishUnguarded, to completion before the next
\* subscriber is visited and before the loop ends; a subscriber with
\* alwaysAsync set is run by a worker only, submitted under exactly its stored
\* priority and affinity
C8_PublishSyncInlineAsyncSubmitted ==
    /\ \A p \in Live :
           (FrameAt(p).kind = "cb" /\ FrameAt(p).op.type = "publish")
               => IF FrameAt(p).sub.async
                    THEN ~FrameAt(p).inl /\ p[1] \notin Users
                    ELSE FrameAt(p).inl /\ InlineOf(p)
    /\ \A p \in Live :
           (FrameAt(p).kind = "op" /\ FrameAt(p).op.type = "publish"
              /\ FrameAt(p).pc = "body" /\ "iterator" \notin gh.ub)
               => \A i \in DOMAIN FrameAt(p).vis :
                     LET n == FrameAt(p).vis[i]
                         ch == FrameAt(p).op.ch
                         done == i < Len(FrameAt(p).vis) \/ p[2] = Len(stack[p[1]])
                     IN (Registered(ch, n) /\ ~itsSubscriptions[ch][n].async)
                            => RunsInline(FrameAt(p).op.id, n) = (IF done THEN 1 ELSE 0)
    /\ \A e \in Submissions :
           e.op.type = "publish"
               => /\ e.sub.async
                  /\ e.prio = e.sub.prio
                  /\ e.sub.aff # itsCurrentAffinity => e.core = e.sub.aff
    /\ \A k \in DOMAIN itsQueueList : KeyedBy(k)
\* a publish of the second task has visited the subscribers "a" (alwaysAsync,
\* subscribed by the first task) and "b": "a" is submitted, "b" has run inline
C8_Witness ==
    \E p \in Live :
        /\ p[1] = T2
        /\ FrameAt(p).kind = "op" /\ FrameAt(p).op.type = "publish"
        /\ FrameAt(p).pc = "body"
        /\ FrameAt(p).vis = <<NameA, NameB>>
        /\ p[2] = Len(stack[p[1]])
        /\ RunsInline(FrameAt(p).op.id, NameB) = 1
        /\ \E e \in Submissions : e.op = FrameAt(p).op /\ e.name = NameA

\* every queue of the DeferredCallsQueue is empty
QueuesEmpty == \A k \in DOMAIN itsQueueList : itsQueueList[k] = <<>>

\* C9: for a publishAsync or publishAsyncWithPrio call no callback runs on the
\* thread of the caller, and once everything has returned and the queues are
\* empty each subscriber the channel had at the call (and has not lost
\* since) has run exactly once, on a worker
C9_PublishAsyncDeliversOnce ==
    /\ \A p \in Live :
           (FrameAt(p).kind = "cb" /\ FrameAt(p).op.type # "publish")
               => ~FrameAt(p).inl /\ p[1] \notin Users
    /\ (Returned /\ QueuesEmpty)
           => \A c \in gh.pubs : \A n \in c.names :
                  <<c.ch, n>> \notin gh.erased
                      => Runs(c.id, n) = 1 /\ RunsInline(c.id, n) = 0

\* C10: publishAsync submits each subscriber under its stored priority and
\* affinity; with a priority override of any value (0 included) the
\* submission has the priority of the override and the stored affinity
C10_AnyOverrideReplacesPriority ==
    \A e \in Submissions :
        /\ e.op.type = "publishAsync"
               => e.prio = e.sub.prio /\ e.core = e.sub.aff
        /\ e.op.type = "publishAsyncWithPrio"
               => U32(e.prio) = e.op.ovr /\ e.core = e.sub.aff

(* ------------------------------------------------------- the pool's claims *)
\* the number of times the callable of the direct submission a has run to
\* completion (on a worker, with the argument it was submitted with)
Ran(a) ==
    LET r == [id |-> a.id, name |-> NoName, arg |-> a.arg, inl |-> FALSE]
    IN IF r \in DOMAIN gh.executed THEN gh.executed[r] ELSE 0
\* the worker of key k is inside the callable of the direct submission a
RunningOn(k, a) ==
    /\ Worker(k) \in DOMAIN stack
    /\ \E i \in DOMAIN stack[Worker(k)] :
           stack[Worker(k)][i].kind = "cb" /\ stack[Worker(k)][i].op.id = a.id
\* the direct submission a lies in the queue of key k
QueuedOn(k, a) == \E i \in DOMAIN itsQueueList[k] : itsQueueList[k][i].op.id = a.id
\* one task submitted a before b, both under the same key
SubmittedBefore(a, b) == a.key = b.key /\ a.id[1] = b.id[1] /\ a.id[2] < b.id[2]
\* every client has made all its submissions and everything has returned
AllSubmitted ==
    /\ \A t \in Users : budget[t] = gh.upperLimit[t]
    /\ \A t \in DOMAIN stack : stack[t] = <<>>
    /\ QueuesEmpty

\* C11: the callables submitted under one key are run by the worker of that
\* key only, one at a time (the worker is inside at most one callable), none
\* more than once, each with the arguments it was submitted with, and in the
\* order of submission: a callable has started only if every callable the
\* same task submitted earlier under that key has completed; once all
\* submissions are made and queues and tasks are idle, without a fatal error,
\* each has run exactly once - whatever is submitted and run under other keys
C11_PerKeyFifoExactlyOnce ==
    /\ \A k \in DOMAIN tasks :
           /\ Len(stack[Worker(k)]) <= 1
           /\ \A a \in gh.subm : RunningOn(k, a) \/ QueuedOn(k, a) => a.key = k
    /\ \A a \in gh.subm : Ran(a) <= 1
    /\ \A r \in DOMAIN gh.executed :
           \E a \in gh.subm : a.id = r.id /\ a.arg = r.arg /\ ~r.inl
    /\ \A a, b \in gh.subm :
           SubmittedBefore(a, b) /\ (Ran(b) > 0 \/ RunningOn(b.key, b))
               => Ran(a) = 1 /\ ~RunningOn(a.key, a) /\ ~QueuedOn(a.key, a)
    /\ AllSubmitted /\ fatal = NoFatal => \A a \in gh.subm : Ran(a) = 1

\* two callables of one task have run in order under one key while a callable
\* of the other task has run under another key
C11_Witness ==
    /\ \E a, b \in gh.subm : SubmittedBefore(a, b) /\ Ran(a) = 1 /\ Ran(b) = 1
    /\ \E a, c \in gh.subm : a.key # c.key /\ Ran(a) = 1 /\ Ran(c) = 1
    /\ AllSubmitted

\* task t is inside xQueueSend
Sending(t) == At(t, "adc", "send") \/ At(t, "adc", "send_wait")

\* C12: a queue never holds more than itsQueueSize (20) entries; a submission
\* that finds its queue full does not return and queues nothing, it blocks;
\* the fatal error of the timeout is raised only for a submission blocked on
\* a full queue, and leaves the queues as they are; a submission returns only
\* with its callable queued at the back of the queue of its key
C12_FullQueueBlocksThenFatal ==
    [][/\ \A k \in DOMAIN itsQueueList' : Len(itsQueueList'[k]) <= itsQueueSize
       /\ \A t \in Users :
            Sending(t) /\ stack'[t] # stack[t] =>
              IF QueueFull(itsQueueList[Top(t).key])
                THEN /\ Top(t).pc = "send"
                     /\ stack'[t] = SetTop(stack[t], [Top(t) EXCEPT !.pc = "send_wait"])
                     /\ itsQueueList' = itsQueueList
                     /\ fatal' = NoFatal
                ELSE /\ stack'[t] = Pop(stack[t])
                     /\ itsQueueList'[Top(t).key] =
                            Append(itsQueueList[Top(t).key], QueueEntry(Top(t)))
                     /\ fatal' = NoFatal
       /\ fatal' # fatal =>
            /\ fatal' = "queue_full_timeout"
            /\ \E t \in Users : At(t, "adc", "send_wait") /\ QueueFull(itsQueueList[Top(t).key])
            /\ itsQueueList' = itsQueueList
            /\ stack' = stack
      ]_vars

\* the submission to a full queue has ended in the fatal error, its callable
\* still with the submitter and twenty others in the queue
C12_Witness ==
    /\ fatal = "queue_full_timeout"
    /\ \E t \in Users : /\ stack[t] # <<>>
                        /\ Top(t).pc = "send_wait"
                        /\ Len(itsQueueList[Top(t).key]) = itsQueueSize
                        /\ \A i \in DOMAIN itsQueueList[Top(t).key] :
                               itsQueueList[Top(t).key][i].op.id # Top(t).op.id

\* the worker has taken the direct submission a out of its queue
Taken(a) == Ran(a) > 0 \/ RunningOn(a.key, a)
\* the direct submission a has been put into its queue
Sent(a) == Taken(a) \/ QueuedOn(a.key, a)
\* the worker of key k is there, or is just being created, and has a step to
\* take that frees a slot of its queue
WorkerProgresses(k) ==
    \/ k \in DOMAIN tasks /\ (stack[Worker(k)] # <<>> \/ itsQueueList[k] # <<>>)
    \/ \E u \in Users : At(u, "adc", "gql_task") /\ Top(u).key = k

\* C13: more callables than the queue holds (itsQueueSize + 3) submitted under
\* one key. A submission blocked on the full queue always has a worker that can
\* take an entry, so no timeout has to elapse; the callable beyond the
\* capacity is queued only after the worker has taken the one submitted
\* itsQueueSize places before it; callables start in the order of
\* submission, none runs twice, and where a submission has waited and no
\* timeout has elapsed, all have run exactly once at the end
C13_OverflowWaitsForWorker ==
    /\ \A t \in Users :
           At(t, "adc", "send_wait") /\ QueueFull(itsQueueList[Top(t).key])
               => WorkerProgresses(Top(t).key)
    /\ \A a, b \in gh.subm :
           /\ a.id[2] = b.id[2] + itsQueueSize
           /\ SubmittedBefore(b, a)
           /\ Sent(a)
           /\ (\A c \in gh.subm : c.key = a.key /\ c.id[1] = a.id[1])
           => Taken(b)
    /\ \A a, b \in gh.subm : SubmittedBefore(a, b) /\ Taken(b) => Ran(a) = 1 /\ Ran(b) <= 1
    /\ gh.waited # {} /\ fatal = NoFatal /\ AllSubmitted => \A a \in gh.subm : Ran(a) = 1

\* the overflow test has run to its end without a fatal error: itsQueueSize + 3
\* callables submitted under one key, a submission has waited on the full
\* queue, and each callable has run once
C13_Witness ==
    /\ fatal = NoFatal
    /\ AllSubmitted
    /\ gh.waited # {}
    /\ Cardinality(gh.subm) = itsQueueSize + 3
    /\ \A a \in gh.subm : a.key = QueueKey(0, UserCore(T1)) /\ Ran(a) = 1

\* C14: for each key xQueueCreate and xTaskCreatePinnedToCore are called at
\* most once, also when two tasks make the first submissions of a key at the
\* same time; the key is in itsQueueList exactly from the one creation of its
\* queue on, every submission that is past getQueueList uses that entry, and
\* no step takes a key out of itsQueueList or puts another queue under it
C14_OneQueueOneWorkerPerKey ==
    [][/\ DOMAIN gh.queues' = DOMAIN itsQueueList'
       /\ DOMAIN gh.workers' = DOMAIN tasks'
       /\ DOMAIN tasks' \subseteq DOMAIN itsQueueList'
       /\ \A k \in DOMAIN itsQueueList' :
            /\ gh.queues'[k] = 1
            /\ k \in DOMAIN tasks' => gh.workers'[k] = 1
       /\ \A t \in Users :
            stack'[t] # <<>> /\ stack'[t][1].kind = "adc"
                /\ stack'[t][1].pc \in {"gql_task", "send", "send_wait"}
              => stack'[t][1].key \in DOMAIN itsQueueList'
       /\ DOMAIN itsQueueList \subseteq DOMAIN itsQueueList'
       /\ \A k \in DOMAIN itsQueueList :
            Len(itsQueueList'[k]) < Len(itsQueueList[k])
              => /\ k \in DOMAIN tasks
                 /\ itsQueueList'[k] = Tail(itsQueueList[k])
      ]_vars

\* two tasks in their first submissions under one key at the same time: the
\* one that created the queue has not created the worker yet, the other has
\* found the queue and put its callable in
C14_Witness ==
    \E t, u \in Users :
        /\ t # u
        /\ At(t, "adc", "gql_task")
        /\ gh.ncall[u] = 1 /\ stack[u] = <<>>
        /\ \E a \in gh.subm : a.id[1] = u /\ a.key = Top(t).key /\ QueuedOn(a.key, a)
        /\ gh.queues[Top(t).key] = 1

\* the keys under which the callable of the direct submission a is found: in
\* the queue of the key, or being run by the worker of the key
PlacedUnder(a) == {k \in DOMAIN itsQueueList : QueuedOn(k, a) \/ RunningOn(k, a)}

\* C15: a submission that asks for the current affinity (itsCurrentAffinity)
\* is placed under the key of the core its submitting task runs on, never
\* under a key made of the sentinel; two tasks on different cores that both
\* ask for the current affinity with one priority are served by two
\* different queues and workers
C15_CurrentAffinityIsCallersCore ==
    /\ \A k \in DOMAIN itsQueueList : k[2] # itsCurrentAffinity % TwoPow16
    /\ \A a \in gh.subm :
           a.aff = itsCurrentAffinity =>
               /\ PlacedUnder(a) \subseteq {QueueKey(a.prio, UserCore(a.id[1]))}
               /\ \A k \in PlacedUnder(a) : k \in DOMAIN tasks => tasks[k].core = UserCore(a.id[1])
    /\ \A a, b \in gh.subm :
           /\ a.aff = itsCurrentAffinity /\ b.aff = itsCurrentAffinity
           /\ a.prio = b.prio
           /\ UserCore(a.id[1]) # UserCore(b.id[1])
           => PlacedUnder(a) \cap PlacedUnder(b) = {}

\* both tasks have asked for the current affinity with priority 0 and their
\* callables wait in two queues, each with its own worker
C15_Witness ==
    \E a, b \in gh.subm :
        /\ a.id[1] = T1 /\ b.id[1] = T2
        /\ a.aff = itsCurrentAffinity /\ b.aff = itsCurrentAffinity
        /\ a.prio = b.prio
        /\ PlacedUnder(a) = {QueueKey(0, 0)} /\ PlacedUnder(b) = {QueueKey(0, 1)}
        /\ QueuedOn(QueueKey(0, 0), a) /\ QueuedOn(QueueKey(0, 1), b)
        /\ DOMAIN tasks = {QueueKey(0, 0), QueueKey(0, 1)}

(* --------------------------------------------- the registry's later claims *)
\* task t is about to begin the loop of publishUnguarded or
\* publishAsyncUnguarded over a channel that is not in the registry or has no
\* subscription
PublishesToNobody(t) ==
    /\ At(t, "op", "body")
    /\ IsShared(Top(t).op)
    /\ Top(t).cur = NoName
    /\ Subscribers(Top(t).op.ch) = {}

\* C16: publishUnguarded and publishAsyncUnguarded on a channel that was never
\* subscribed to or has no subscription return at once: no callback is run
\* or has run for the call, nothing is submitted to the pool, no fatal error
\* is raised and the registry, channels included, is as before
C16_PublishToNobodyIsNoOp ==
    [][\A t \in DOMAIN stack :
         PublishesToNobody(t) /\ stack'[t] # stack[t] =>
           /\ stack'[t] = AfterBody(stack[t], Top(t))
           /\ itsSubscriptions' = itsSubscriptions
           /\ itsQueueList' = itsQueueList
           /\ tasks' = tasks
           /\ gh'.executed = gh.executed
           /\ fatal' = NoFatal]_vars

\* a publish on a channel nobody ever subscribed to has passed its loop
\* without a visit, while another channel has a subscriber
C16_Witness ==
    \E t \in Users :
        /\ stack[t] # <<>>
        /\ Top(t).kind = "op" /\ Top(t).pc = "rqc_lock"
        /\ IsShared(Top(t).op)
        /\ Top(t).vis = <<>>
        /\ Top(t).op.ch \notin DOMAIN itsSubscriptions
        /\ \E c \in DOMAIN itsSubscriptions : itsSubscriptions[c] # EmptyMap
        /\ fatal = NoFatal

\* the subscriptions of the registry subs, as (channel, name) pairs
Pairs(subs) == UNION {{<<c, n>> : n \in DOMAIN subs[c]} : c \in DOMAIN subs}
\* the subscriptions the removal op is to remove from the registry subs
Removes(subs, op) ==
    CASE op.type = "unsubscribe" -> {<<op.ch, op.name>>} \cap Pairs(subs)
      [] op.type = "clearChannel" -> {p \in Pairs(subs) : p[1] = op.ch}
      [] op.type = "clearAll" -> Pairs(subs)

\* C17: a step of unsubscribeUnguarded removes the named subscription of the
\* channel if it is there and no subscription if it is not, clearUnguarded of
\* a channel removes the subscriptions of that channel, clearUnguarded() all
\* of them; every other subscription stays, with its entry unchanged, none
\* is added and no fatal error is raised
C17_RemovalRemovesExactlyItsTarget ==
    [][\A t \in DOMAIN stack :
         /\ At(t, "op", "body")
         /\ Top(t).op.type \in {"unsubscribe", "clearChannel", "clearAll"}
         /\ stack'[t] # stack[t]
         => /\ Pairs(itsSubscriptions') =
                   Pairs(itsSubscriptions) \ Removes(itsSubscriptions, Top(t).op)
            /\ \A p \in Pairs(itsSubscriptions') :
                   itsSubscriptions'[p[1]][p[2]] = itsSubscriptions[p[1]][p[2]]
            /\ fatal' = NoFatal]_vars

\* an unsubscribe has just removed one of two subscriptions of a channel and
\* the other is still there
C17_Witness ==
    \E t \in Users :
        /\ stack[t] # <<>>
        /\ Top(t).kind = "op" /\ Top(t).pc = "rqc_lock"
        /\ Top(t).op.type = "unsubscribe"
        /\ <<Top(t).op.ch, Top(t).op.name>> \in gh.erased
        /\ ~Registered(Top(t).op.ch, Top(t).op.name)
        /\ \E n \in Subscribers(Top(t).op.ch) : n # Top(t).op.name

\* the activations that are inside an Unguarded function of the registry:
\* readers iterate the map, the others modify it
Inside == {p \in Live : FrameAt(p).kind = "op" /\ FrameAt(p).pc = "body"}

\* C18: whoever is inside subscribeUnguarded, unsubscribeUnguarded or a
\* clearUnguarded, thunks run by runQueuedCalls included, is the writer of
\* itsPubSubMutex; whoever is inside publishUnguarded or publishAsyncUnguarded,
\* thunks included, holds it shared; and nobody is inside a modifying function
\* while another task is inside a reading one
C18_MapAccessedUnderItsLock ==
    /\ \A p \in Inside :
           IF IsShared(FrameAt(p).op)
             THEN p[1] \in DOMAIN itsPubSubMutex.readers
             ELSE itsPubSubMutex.writer = p[1]
    /\ \A p, q \in Inside :
           p[1] # q[1] /\ ~IsShared(FrameAt(p).op) => ~IsShared(FrameAt(q).op)

\* no task is inside a function of the registry (entry point, Unguarded
\* function, drain or queuing branch) and nobody holds itsPubSubMutex
RegistryIdle ==
    /\ \A p \in Live : FrameAt(p).kind # "op"
    /\ itsPubSubMutex = [writer |-> NoTask, readers |-> EmptyBag]
    /\ itsDefCallsMutex = NoTask

\* C19: whenever no registry operation is in progress on any task,
\* itsRecursiveCallsQueue is empty
C19_QueueEmptyWhenIdle == RegistryIdle => itsRecursiveCallsQueue = <<>>

\* the step in which the drain of task t calls the thunk at the front of its
\* copy of the queue
CallsThunk(t) ==
    /\ At(t, "op", "rqc_loop")
    /\ Len(stack'[t]) = Len(stack[t]) + 1
\* the number of times task t holds itsPubSubMutex shared
SharedHolds(t) ==
    IF t \in DOMAIN itsPubSubMutex.readers THEN itsPubSubMutex.readers[t] ELSE 0
\* a task that holds itsDefCallsMutex is executing a subscriber callback (the
\* callback is its innermost activation)
CallbackUnderDefCallsMutex ==
    \E t \in DOMAIN stack : stack[t] # <<>> /\ Top(t).kind = "cb" /\ itsDefCallsMutex = t

\* C20: the drain calls a thunk only while its task holds neither
\* itsDefCallsMutex nor itsPubSubMutex (as writer or reader), and no task
\* executes a subscriber callback while it holds itsDefCallsMutex
C20_ThunkRunsWithoutAnyLock ==
    [][/\ \A t \in DOMAIN stack :
            CallsThunk(t) => /\ itsDefCallsMutex # t
                             /\ itsPubSubMutex.writer # t
                             /\ SharedHolds(t) = 0
       /\ ~CallbackUnderDefCallsMutex']_vars

(* ------------------------------------------------------ the last claims *)
\* task t is in subscribeUnguarded for a subscribe call made without a name,
\* and the generated name is one its channel already holds
UnnamedCollides(t) == Duplicate(t) /\ Top(t).op.id \in gh.unnamed

Yielded(t) == stack[t] = <<>> /\ budget[t] = gh.upperLimit[t]
\* the direct submissions a and b are for one core, a with the higher priority
Outranks(a, b) == a.key[2] = b.key[2] /\ a.key[1] > b.key[1]

\* C22: with callables pending under two keys of one core and different
\* priorities, once the submitting task has yielded a callable of the key of
\* lower priority is taken by its worker only when every callable submitted
\* under the key of higher priority has run, and under each key the callables
\* are taken in the order of their submission
C22_HigherPriorityKeyRunsFirst ==
    /\ \A a, b \in gh.subm :
           Yielded(b.id[1]) /\ Outranks(a, b) /\ Taken(b) => Ran(a) = 1
    /\ \A a, b \in gh.subm :
           SubmittedBefore(a, b) /\ Taken(b) => Ran(a) = 1 /\ Ran(b) <= 1

\* the submitting task has yielded with callables pending under the keys of
\* priority 0 and 1; those of priority 1 have all run, the first of priority 0
\* has run and the others of priority 0 are still pending
C22_Witness ==
    /\ Yielded(T1)
    /\ gh.modulus = 2
    /\ DOMAIN itsQueueList = {QueueKey(0, 0), QueueKey(1, 0)}
    /\ \A a \in gh.subm : a.key = QueueKey(1, 0) => Ran(a) = 1
    /\ \E b \in gh.subm : b.key = QueueKey(0, 0) /\ Ran(b) = 1
    /\ Len(itsQueueList[QueueKey(0, 0)]) = (itsQueueSize \div 4) - 1

\* C23: a task that submits up to itsQueueSize callables under a key of lower
\* priority than its own, on its own core, is never blocked in xQueueSend and
\* meets no fatal error, the first submission that creates queue and worker
\* included; while the task is ready (it has not finished its loop and is
\* not blocked) none of these callables has been taken by the worker, so
\* each submission returns before its callable runs
C23_LowerPriorityKeyWaitsForYield ==
    /\ fatal = NoFatal
    /\ \A a \in gh.subm :
           a.key[1] < UserPrio(a.id[1]) /\ a.key[2] = UserCore(a.id[1]) % TwoPow16
               => /\ a.id \notin gh.waited
                  /\ Ready(a.id[1]) => ~Taken(a)

\* the task has made the itsQueueSize submissions of the queue size test under
\* the key of priority 0, which did not exist before: all are pending, none
\* has been taken, no submission has waited
C23_Witness ==
    /\ fatal = NoFatal
    /\ gh.modulus = 1
    /\ Cardinality(gh.subm) = itsQueueSize
    /\ Len(itsQueueList[QueueKey(0, UserCore(T1))]) = itsQueueSize
    /\ \A a \in gh.subm : ~Taken(a) /\ a.key[1] < UserPrio(T1)
    /\ gh.waited = {}
    /\ gh.queues = (QueueKey(0, UserCore(T1)) :> 1)

\* the submission a was made by a callable, from inside a worker
Nested(a) == a.by # <<>>
\* the submission whose callable made the nested submission a
SubmitterOf(a) == CHOOSE b \in gh.subm : b.id = a.by
\* the task t holds itsQueueListMutex inside the locked part of getQueueList
InLookup(t) == At(t, "adc", "gql_find") \/ At(t, "adc", "gql_create")

\* C24: a callable run by a worker submits a callable, to the key of its own
\* worker or to a key that does not exist yet. itsQueueListMutex is held only
\* inside the locked part of getQueueList, so never by a task that runs a
\* callable, and a task waiting for it waits for a holder that has a step to
\* take; the nested submission is made only after the output the submitting
\* callable writes before it; the nested callable never runs twice, and once
\* everything is submitted and idle, without a fatal error, it has run exactly
\* once
C24_NestedSubmissionRunsOnce ==
    /\ \A t \in DOMAIN stack :
         /\ itsQueueListMutex = t => InLookup(t)
         /\ (At(t, "adc", "gql_lock") /\ itsQueueListMutex # NoTask)
                => itsQueueListMutex # t /\ InLookup(itsQueueListMutex)
    /\ \A a \in gh.subm :
         /\ Ran(a) <= 1
         /\ Nested(a) => /\ a.by \in {b.id : b \in gh.subm}
                         /\ Ran(SubmitterOf(a)) = 1
                         /\ a.id[1] = Worker(SubmitterOf(a).key)
         /\ (AllSubmitted /\ fatal = NoFatal) => Ran(a) = 1

\* both kinds of nested submission have run: one to the key of the worker
\* that ran the submitting callable, one to a key that worker created
C24_Witness ==
    /\ AllSubmitted
    /\ fatal = NoFatal
    /\ \E a \in gh.subm : Nested(a) /\ Ran(a) = 1 /\ a.key = SubmitterOf(a).key
    /\ \E a \in gh.subm : Nested(a) /\ Ran(a) = 1 /\ a.key # SubmitterOf(a).key
                          /\ a.key[1] = 0 /\ SubmitterOf(a).key[1] = ESP_TASK_MAIN_PRIO

\* C25: the drain loop of runQueuedCalls calls front() and pop() only on a
\* local copy that holds a thunk: no task has read the front of an empty
\* copy, and no task is about to pop one
C25_DrainReadsNonEmptyCopy ==
    /\ "front" \notin gh.ub
    /\ \A t \in DOMAIN stack : \A i \in DOMAIN stack[t] :
           (stack[t][i].kind = "op" /\ stack[t][i].pc = "rqc_pop") => stack[t][i].copy # <<>>

\* the core the submission a is made for: p_core_id, or the core of the
\* submitting task where the caller passed itsCurrentAffinity
ResolvedCore(a) == ResolveCore(a.id[1], a.aff)

\* C26: the key is injective on the dispatch keys in use, for priorities
\* below 2^16 and the affinities core 0, core 1 and tskNO_AFFINITY: two
\* submissions whose resolved (priority, affinity) pairs differ have different
\* keys, so they are queued in different queues, and the worker of a
\* submission's key has been created with exactly the priority and the
\* affinity of that submission
C26_KeyInjectiveOnPairsInUse ==
    \A a \in gh.subm :
        /\ a.key \in DOMAIN tasks
              => tasks[a.key] = [prio |-> a.prio, core |-> ResolvedCore(a)]
        /\ \A b \in gh.subm :
              (a.prio # b.prio \/ ResolvedCore(a) # ResolvedCore(b))
                  => /\ a.key # b.key
                     /\ a.key \in DOMAIN itsQueueList => ~QueuedOn(a.key, b)

\* two submissions queued under keys that differ in the affinity only, one of
\* them tskNO_AFFINITY, with the highest priority below 2^16, and both
\* workers created
C26_Witness ==
    \E a, b \in gh.subm :
        /\ a.prio = TwoPow16 - 1 /\ b.prio = TwoPow16 - 1
        /\ ResolvedCore(a) = tskNO_AFFINITY /\ ResolvedCore(b) = UserCore(T1)
        /\ b.aff = itsCurrentAffinity
        /\ a.key # b.key
        /\ a.key \in DOMAIN tasks /\ b.key \in DOMAIN tasks
        /\ Ran(a) = 1 /\ Ran(b) = 1

\* the names in the sequence s
Range(s) == {s[i] : i \in DOMAIN s}
\* what the channel held when the publish call of frame f got the lock
SnapshotOf(f) == {c \in gh.pubs : c.id = f.op.id}

\* C27: one publish call visits the subscribers its channel had when the call
\* acquired the read lock, each once: while it iterates it has visited only
\* such subscribers and its iterator has never stood on an erased node, and
\* when its loop is done it has visited all of them - also when a callback of
\* that publish calls subscribe, unsubscribe (of itself or of the next
\* subscriber) or clear for the same channel
C27_PublishVisitsItsSnapshot ==
    /\ "iterator" \notin gh.ub
    /\ \A t \in DOMAIN stack : \A i \in DOMAIN stack[t] :
         LET f == stack[t][i] IN
           (f.kind = "op" /\ f.op.type = "publish") =>
              \A c \in SnapshotOf(f) :
                 /\ Range(f.vis) \subseteq c.names
                 /\ Cardinality(Range(f.vis)) = Len(f.vis)
                 /\ f.pc \notin {"body", "enq_lock", "enq_put"} => Range(f.vis) = c.names

====
